---- MODULE Spec2Model ----
(***************************************************************************)
(* Model of the OT device debug "thinking" server (src/src/index.ts):      *)
(* class OTDeviceDebugThinkingServer, its step dispatcher                  *)
(* processLegacyDeviceDebug, the seven phase analyzers, the page-event     *)
(* handlers and generateFinalReport.                                       *)
(*                                                                         *)
(* Strings are TLA+ strings; the string functions of the source            *)
(* (toLowerCase, includes, match, replace, new URL) are computed           *)
(* character by character.  JavaScript values of unknown type (the tool    *)
(* input) are tagged records.  An exception is a result with threw = TRUE. *)
(***************************************************************************)
EXTENDS Integers, Sequences, FiniteSets, TLC

VARIABLES
  thoughtHistory,  \* this.thoughtHistory
  branches,        \* this.branches
  browser,         \* this.browser
  page,            \* this.page
  debugContext,    \* this.debugContext
  request,         \* the operation that ran last and its argument
  response,        \* what the last processLegacyDeviceDebug call returned
  calls,           \* methods and collaborator calls of the last submission
  inserted,        \* every rule pushed so far, in the order of the pushes
  reported,        \* debugContext as generateFinalReport last found it
  suspended,       \* the calls that wait at an await for a collaborator
  answered         \* the recorded requests whose response event was emitted

vars == <<thoughtHistory, branches, browser, page, debugContext,
          request, response, calls, inserted, reported, suspended, answered>>

-----------------------------------------------------------------------------
(* Strings *)

Min(S) == CHOOSE m \in S : \A n \in S : m <= n

CharAt(s, i) == SubSeq(s, i, i)

\* String.prototype.includes
Includes(s, k) ==
  \E i \in 1..(Len(s) - Len(k) + 1) : SubSeq(s, i, i + Len(k) - 1) = k

\* String.prototype.startsWith at position i (1-based)
HasAt(s, i, k) ==
  /\ i >= 1
  /\ i + Len(k) - 1 <= Len(s)
  /\ SubSeq(s, i, i + Len(k) - 1) = k

\* String.prototype.indexOf, 1-based; 0 when absent
IndexOf(s, k) ==
  IF Includes(s, k)
  THEN Min({i \in 1..(Len(s) - Len(k) + 1) : SubSeq(s, i, i + Len(k) - 1) = k})
  ELSE 0

UpperLetters == "ABCDEFGHIJKLMNOPQRSTUVWXYZ"
LowerLetters == "abcdefghijklmnopqrstuvwxyz"
Digits == "0123456789"

LowerChar(c) ==
  IF Includes(UpperLetters, c) /\ Len(c) = 1
  THEN CharAt(LowerLetters, IndexOf(UpperLetters, c))
  ELSE c

RECURSIVE LowerFrom(_, _)
LowerFrom(s, i) ==
  IF i > Len(s) THEN "" ELSE LowerChar(CharAt(s, i)) \o LowerFrom(s, i + 1)

\* String.prototype.toLowerCase
toLowerCase(s) == LowerFrom(s, 1)

IsSpace(c) == c \in {" ", "\t", "\n", "\r"}
IsDigit(c) == Len(c) = 1 /\ Includes(Digits, c)

\* the first position >= i holding a character that satisfies stop, or Len(s)+1
RECURSIVE ScanSpace(_, _)
ScanSpace(s, i) ==
  IF i > Len(s) \/ IsSpace(CharAt(s, i)) THEN i ELSE ScanSpace(s, i + 1)

RECURSIVE ScanChars(_, _, _)
ScanChars(s, i, stops) ==
  IF i > Len(s) \/ CharAt(s, i) \in stops THEN i ELSE ScanChars(s, i + 1, stops)

RECURSIVE ScanDigits(_, _)
ScanDigits(s, i) ==
  IF i > Len(s) \/ ~IsDigit(CharAt(s, i)) THEN i ELSE ScanDigits(s, i + 1)

RECURSIVE DigitsValue(_, _, _)
DigitsValue(s, i, acc) ==
  IF i > Len(s) THEN acc
  ELSE DigitsValue(s, i + 1, acc * 10 + (IndexOf(Digits, CharAt(s, i)) - 1))

\* length of the prefix "http://" or "https://" at position i, 0 when neither
SchemeLenAt(s, i) ==
  IF HasAt(s, i, "https://") THEN 8
  ELSE IF HasAt(s, i, "http://") THEN 7
  ELSE 0

\* thought.match(/https?:\/\/[^\s]+/): positions where the pattern matches
UrlMatchStarts(s) ==
  {i \in 1..Len(s) :
     /\ SchemeLenAt(s, i) > 0
     /\ i + SchemeLenAt(s, i) <= Len(s)
     /\ ~IsSpace(CharAt(s, i + SchemeLenAt(s, i)))}

\* urlMatch: "" stands for null (a match is never empty)
UrlMatch(s) ==
  IF UrlMatchStarts(s) = {} THEN ""
  ELSE LET i == Min(UrlMatchStarts(s))
       IN SubSeq(s, i, ScanSpace(s, i) - 1)

\* s.replace(/^https?:\/\/[^\/]+/, by), the scheme being n characters long
ReplaceAnchoredAt(s, by, n, e) ==
  IF n > 0 /\ e > n + 1 THEN by \o SubSeq(s, e, Len(s)) ELSE s

ReplaceOriginAnchored(s, by) ==
  ReplaceAnchoredAt(s, by, SchemeLenAt(s, 1),
                    ScanChars(s, SchemeLenAt(s, 1) + 1, {"/"}))

\* s.replace(/https?:\/\/[^\/]+/, by): the leftmost match
OriginStarts(s) ==
  {i \in 1..Len(s) :
     /\ SchemeLenAt(s, i) > 0
     /\ i + SchemeLenAt(s, i) <= Len(s)
     /\ CharAt(s, i + SchemeLenAt(s, i)) # "/"}

ReplaceOriginAt(s, by, i) ==
  SubSeq(s, 1, i - 1) \o by
    \o SubSeq(s, ScanChars(s, i + SchemeLenAt(s, i), {"/"}), Len(s))

ReplaceOriginIn(s, by, starts) ==
  IF starts = {} THEN s ELSE ReplaceOriginAt(s, by, Min(starts))

ReplaceOrigin(s, by) == ReplaceOriginIn(s, by, OriginStarts(s))

\* s.match(/:(\d+)/): the captured digits, "" for no match
PortStarts(s) ==
  {i \in 1..(Len(s) - 1) : CharAt(s, i) = ":" /\ IsDigit(CharAt(s, i + 1))}

PortMatchAt(s, i) == SubSeq(s, i + 1, ScanDigits(s, i + 1) - 1)

PortMatchIn(s, starts) == IF starts = {} THEN "" ELSE PortMatchAt(s, Min(starts))

PortMatch(s) == PortMatchIn(s, PortStarts(s))

-----------------------------------------------------------------------------
(* new URL(s): the WHATWG parser restricted to the special schemes with an  *)
(* authority (http, https, ws, wss) and to hosts that are domain names or   *)
(* dotted IPv4 addresses.  Anything else (a relative reference, a bad port, *)
(* an empty or malformed host) throws: ok = FALSE.                          *)

UrlSchemes == <<"https://", "http://", "wss://", "ws://">>

SchemeHits(prefix) ==
  {k \in 1..Len(UrlSchemes) : HasAt(prefix, 1, UrlSchemes[k])}

SchemeLenOf(hits) == IF hits = {} THEN 0 ELSE Len(UrlSchemes[Min(hits)])

UrlSchemeLen(s) ==
  SchemeLenOf(SchemeHits(toLowerCase(SubSeq(s, 1, IF Len(s) < 8 THEN Len(s) ELSE 8))))

DefaultPort(scheme) ==
  IF scheme \in {"https://", "wss://"} THEN "443" ELSE "80"

ForbiddenHostChars ==
  {" ", "#", "%", "/", ":", "<", ">", "?", "@", "[", "\\", "]", "^", "|",
   "\t", "\n", "\r"}

HostOk(h) ==
  /\ Len(h) > 0
  /\ \A i \in 1..Len(h) : CharAt(h, i) \notin ForbiddenHostChars

PortOk(port) ==
  /\ \A i \in 1..Len(port) : IsDigit(CharAt(port, i))
  /\ Len(port) <= 5
  /\ DigitsValue(port, 1, 0) <= 65535

\* the last ":" of the authority, 0 when there is none
LastOf(cs) == IF cs = {} THEN 0 ELSE CHOOSE m \in cs : \A n \in cs : n <= m

LastColon(a) == LastOf({i \in 1..Len(a) : CharAt(a, i) = ":"})

InvalidUrl == [ok |-> FALSE, hostname |-> "", pathname |-> "", port |-> ""]

UrlRecord(scheme, host, port, path) ==
  IF ~HostOk(host) \/ ~PortOk(port) THEN InvalidUrl
  ELSE [ok |-> TRUE,
        hostname |-> toLowerCase(host),
        pathname |-> IF path = "" THEN "/" ELSE path,
        port |-> IF port = DefaultPort(scheme) THEN "" ELSE port]

UrlParts(s, n, aEnd, auth, c) ==
  UrlRecord(toLowerCase(SubSeq(s, 1, n)),
            IF c = 0 THEN auth ELSE SubSeq(auth, 1, c - 1),
            IF c = 0 THEN "" ELSE SubSeq(auth, c + 1, Len(auth)),
            SubSeq(s, aEnd, ScanChars(s, aEnd, {"?", "#"}) - 1))

UrlAuthority(s, n, aEnd, auth) == UrlParts(s, n, aEnd, auth, LastColon(auth))

UrlAfterScheme(s, n, aEnd) == UrlAuthority(s, n, aEnd, SubSeq(s, n + 1, aEnd - 1))

UrlWithScheme(s, n) ==
  IF n = 0 THEN InvalidUrl
  ELSE UrlAfterScheme(s, n, ScanChars(s, n + 1, {"/", "?", "#", "\\"}))

ParseURLString(s) == UrlWithScheme(s, UrlSchemeLen(s))

-----------------------------------------------------------------------------
(* The texts the model submits and the URLs the collaborators report.  The  *)
(* string functions are tabulated over them once, so that a state           *)
(* transition looks a result up instead of scanning the string again; a     *)
(* string outside the tables is computed on the spot.                       *)

Thoughts ==
  {"start debugging http://192.168.1.100:8080",
   "Check page loading",
   "Analyze images and links",
   "Check WebSocket, then curl",
   "Check redirects",
   "Check network and console errors",
   "Perform curl analysis",
   "Generate final report",
   "finish",
   "think",
   "look at https://plc.local/ui",
   "see http://192.168.1.100:8080.",
   "start debugging http://192.168.1.100:8080.",
   "Finish and generate final report",
   "Start debugging for http://192.168.1.100:8080",
   "Check WebSocket",
   "start",
   "start http://10.0.0.5/",
   "finish http://10.0.0.5/",
   "curl http://10.0.0.5/"}

Urls ==
  {"", "http://192.168.1.100:8080", "https://plc.local/ui",
   "http://192.168.1.100:8080.", "http://10.0.0.5/",
   "http://192.168.1.100:8080/img/logo.png", "http://cdn.example.com/a.png",
   "http://192.168.1.100:8080/status", "/static/app.js",
   "http://192.168.1.100:8080/css/site.css",
   "http://192.168.1.100:8443/login",
   "http://192.168.1.100:8080/static/app.js",
   "http://cdn.example.com/static/lib.js",
   "sid=1; domain=192.168.1.100",
   "http://192.168.1.100:8080/?domain=x",
   "http://172.16.0.1/", "http://172.32.0.1/", "http://127.0.0.1:3000/"}

ParseURLTable == [u \in Urls |-> ParseURLString(u)]

ParseURL(s) == IF s \in Urls THEN ParseURLTable[s] ELSE ParseURLString(s)

UrlMatchTable == [t \in Thoughts |-> UrlMatch(t)]

-----------------------------------------------------------------------------
(* JavaScript values of unknown type: the tool input and its fields *)

Undefined == [t |-> "undefined"]
Null == [t |-> "null"]
Num(n) == [t |-> "number", v |-> n]
Str(s) == [t |-> "string", v |-> s]
Bool(b) == [t |-> "boolean", v |-> b]

\* ToBoolean
Truthy(x) ==
  CASE x.t = "undefined" -> FALSE
    [] x.t = "null" -> FALSE
    [] x.t = "number" -> x.v # 0
    [] x.t = "string" -> x.v # ""
    [] x.t = "boolean" -> x.v
    [] OTHER -> TRUE

\* an object literal holding the nine properties the validator reads
Obj(thought, thoughtNumber, totalThoughts, nextThoughtNeeded, branchFromThought, branchId) ==
  [t |-> "object",
   thought |-> thought,
   thoughtNumber |-> thoughtNumber,
   totalThoughts |-> totalThoughts,
   nextThoughtNeeded |-> nextThoughtNeeded,
   isRevision |-> Undefined,
   revisesThought |-> Undefined,
   branchFromThought |-> branchFromThought,
   branchId |-> branchId,
   needsMoreThoughts |-> Undefined]

Ok(v) == [threw |-> FALSE, error |-> "", value |-> v]
Throw(msg) == [threw |-> TRUE, error |-> msg, value |-> Undefined]

\* validateThoughtData: the ThoughtData record, or the exception thrown.
\* Reading a property of null or undefined is a TypeError.
validateThoughtData_NoThoughtCheck(input) ==
  IF input.t \in {"null", "undefined"}
  THEN Throw("Cannot read properties of " \o input.t \o " (reading 'thought')")
  ELSE IF ~Truthy(input.thoughtNumber) \/ input.thoughtNumber.t # "number"
  THEN Throw("Invalid thoughtNumber: must be a number")
  ELSE IF ~Truthy(input.totalThoughts) \/ input.totalThoughts.t # "number"
  THEN Throw("Invalid totalThoughts: must be a number")
  ELSE IF input.nextThoughtNeeded.t # "boolean"
  THEN Throw("Invalid nextThoughtNeeded: must be a boolean")
  ELSE Ok([thought |-> IF input.thought.t = "string" THEN input.thought.v ELSE "",
           thoughtNumber |-> input.thoughtNumber.v,
           totalThoughts |-> input.totalThoughts.v,
           nextThoughtNeeded |-> input.nextThoughtNeeded.v,
           isRevision |-> input.isRevision,
           revisesThought |-> input.revisesThought,
           branchFromThought |-> input.branchFromThought,
           branchId |-> input.branchId,
           needsMoreThoughts |-> input.needsMoreThoughts])

validateThoughtData(input) ==
  IF input.t \in {"null", "undefined"}
  THEN Throw("Cannot read properties of " \o input.t \o " (reading 'thought')")
  ELSE IF ~Truthy(input.thought) \/ input.thought.t # "string"
  THEN Throw("Invalid thought: must be a string")
  ELSE IF ~Truthy(input.thoughtNumber) \/ input.thoughtNumber.t # "number"
  THEN Throw("Invalid thoughtNumber: must be a number")
  ELSE IF ~Truthy(input.totalThoughts) \/ input.totalThoughts.t # "number"
  THEN Throw("Invalid totalThoughts: must be a number")
  ELSE IF input.nextThoughtNeeded.t # "boolean"
  THEN Throw("Invalid nextThoughtNeeded: must be a boolean")
  ELSE Ok([thought |-> input.thought.v,
           thoughtNumber |-> input.thoughtNumber.v,
           totalThoughts |-> input.totalThoughts.v,
           nextThoughtNeeded |-> input.nextThoughtNeeded.v,
           isRevision |-> input.isRevision,
           revisesThought |-> input.revisesThought,
           branchFromThought |-> input.branchFromThought,
           branchId |-> input.branchId,
           needsMoreThoughts |-> input.needsMoreThoughts])

-----------------------------------------------------------------------------
(* The server object.  A machine record m holds the fields of `this`       *)
(* (thoughtHistory, branches, browser, page, debugContext) and two         *)
(* recordings that are not fields of the program: calls, the methods and   *)
(* collaborator calls the current submission has awaited, in order;        *)
(* inserted, every rule ever pushed, in the order of the pushes; reported, *)
(* the debugContext as it was when generateFinalReport was last entered.   *)

\* the field initializers of OTDeviceDebugThinkingServer.debugContext
InitialDebugContext ==
  [deviceUrl |-> "",
   deviceIP |-> "",
   deviceHostname |-> "",
   currentStep |-> "",
   defaultRulesEnabled |-> FALSE,
   pageLoadStatus |-> "",
   brokenImages |-> <<>>,
   brokenLinks |-> <<>>,
   deviceIPReferences |-> <<>>,
   websocketIssues |-> <<>>,
   redirects |-> <<>>,
   networkRequests |-> <<>>,
   consoleErrors |-> <<>>,
   curlResults |-> [status |-> 0, headers |-> <<>>],
   rewriteRules |-> <<>>,
   issues |-> <<>>]

NoBranches == [k \in {} |-> <<>>]

InitialMachine ==
  [thoughtHistory |-> <<>>,
   branches |-> NoBranches,
   browser |-> "null",
   page |-> "null",
   debugContext |-> InitialDebugContext,
   calls |-> <<>>,
   inserted |-> <<>>,
   reported |-> InitialDebugContext]

Done(m) == [m |-> m, threw |-> FALSE, error |-> ""]
Raise(m, msg) == [m |-> m, threw |-> TRUE, error |-> msg]

Called(m, name) == [m EXCEPT !.calls = Append(@, name)]

\* the push, had the newest issues been put first
PushIssues_NewestFirst(m, msgs) ==
  [m EXCEPT !.debugContext.issues = msgs \o @]

\* this.debugContext.issues.push(...)
PushIssues(m, msgs) ==
  [m EXCEPT !.debugContext.issues = @ \o msgs]

\* the push, had a rule the catalog holds already been left out
PushRules_Once(m, rules) ==
  LET IsNew(r) == \A i \in 1..Len(m.debugContext.rewriteRules) :
                    m.debugContext.rewriteRules[i] # r
  IN [m EXCEPT !.debugContext.rewriteRules = @ \o SelectSeq(rules, IsNew),
               !.inserted = @ \o SelectSeq(rules, IsNew)]

\* this.debugContext.rewriteRules.push(...)
PushRules(m, rules) ==
  [m EXCEPT !.debugContext.rewriteRules = @ \o rules,
            !.inserted = @ \o rules]

\* the issues and the rules one examined item contributes
PushFindings(m, f) == PushRules(PushIssues(m, f.issues), f.rules)

\* `${error}` of an Error object
ErrorText(e) == "Error: " \o e

IpRegexTest(h) ==
  \/ HasAt(h, 1, "192.168.")
  \/ HasAt(h, 1, "10.")
  \/ HasAt(h, 1, "127.")
  \/ /\ HasAt(h, 1, "172.")
     /\ Len(h) >= 7
     /\ CharAt(h, 7) = "."
     /\ \/ CharAt(h, 5) = "1" /\ CharAt(h, 6) \in {"6", "7", "8", "9"}
        \/ CharAt(h, 5) = "2" /\ IsDigit(CharAt(h, 6))
        \/ CharAt(h, 5) = "3" /\ CharAt(h, 6) \in {"0", "1"}

\* the comparison, had the private-network pattern been left out
SameDevice_HostnameOnly(urlObj, deviceUrlObj) ==
  IF ~urlObj.ok \/ ~deviceUrlObj.ok THEN FALSE
  ELSE urlObj.hostname = deviceUrlObj.hostname

\* the comparison made once both URLs are parsed; the catch clause answers
\* false when either does not parse
SameDevice(urlObj, deviceUrlObj) ==
  IF ~urlObj.ok \/ ~deviceUrlObj.ok THEN FALSE
  ELSE IF urlObj.hostname = deviceUrlObj.hostname THEN TRUE
  ELSE IpRegexTest(urlObj.hostname)

isDeviceIPOrHostname(m, url) ==
  IF m.debugContext.deviceUrl = "" THEN FALSE
  ELSE SameDevice(ParseURL(url), ParseURL(m.debugContext.deviceUrl))

isPrivateAPICall(url) ==
  \/ Includes(url, "/private-api/")
  \/ Includes(url, "/api/private/")
  \/ Includes(url, "/internal/")
  \/ Includes(toLowerCase(url), "private")

-----------------------------------------------------------------------------
(* The collaborators.  env is what the page inspector and the header       *)
(* prober answer during one submission: for a call that can fail, error is *)
(* the message of the exception ("" when the call succeeds).  browser is   *)
(* "null" or "open"; page is "null", "blank" (created, nothing navigated)  *)
(* or "navigated".                                                         *)

Header(h, name) == IF name \in DOMAIN h THEN h[name] ELSE ""

NoHeaders == [k \in {} |-> ""]

initBrowser_AlwaysLaunch(m0, env) ==
  LET m1 == Called(m0, "initBrowser")
      m2 == Called(m1, "chromium.launch")
      m3 == [m2 EXCEPT !.browser = "open"]
      m4 == Called(m3, "browser.newContext")
      m5 == Called(m4, "context.newPage")
  IN IF env.launch # "" THEN Raise(m2, env.launch)
     ELSE IF m3.page # "null" THEN Done(m3)
     ELSE IF env.newContext # "" THEN Raise(m4, env.newContext)
     ELSE IF env.newPage # "" THEN Raise(m5, env.newPage)
     ELSE Done([m5 EXCEPT !.page = "blank"])

initBrowser(m0, env) ==
  LET m1 == Called(m0, "initBrowser")
      m2 == IF m1.browser = "null" THEN Called(m1, "chromium.launch") ELSE m1
      launchFails == m1.browser = "null" /\ env.launch # ""
      m3 == [m2 EXCEPT !.browser = "open"]
      m4 == Called(m3, "browser.newContext")
      m5 == Called(m4, "context.newPage")
  IN IF launchFails THEN Raise(m2, env.launch)
     ELSE IF m3.page # "null" THEN Done(m3)
     ELSE IF env.newContext # "" THEN Raise(m4, env.newContext)
     ELSE IF env.newPage # "" THEN Raise(m5, env.newPage)
     ELSE Done([m5 EXCEPT !.page = "blank"])

\* the handler, had it flagged the requests to the host of the target only
onRequest_ClassifiedByHostname(m, url, method) ==
  [m EXCEPT !.debugContext.networkRequests =
     Append(@, [url |-> url,
                method |-> method,
                headers |-> NoHeaders,
                isPrivateAPI |-> isPrivateAPICall(url),
                isDeviceIP |->
                  /\ m.debugContext.deviceUrl # ""
                  /\ SameDevice_HostnameOnly(ParseURL(url),
                                             ParseURL(m.debugContext.deviceUrl))])]

\* page.on('request', ...)
onRequest(m, url, method) ==
  [m EXCEPT !.debugContext.networkRequests =
     Append(@, [url |-> url,
                method |-> method,
                headers |-> NoHeaders,
                isPrivateAPI |-> isPrivateAPICall(url),
                isDeviceIP |-> isDeviceIPOrHostname(m, url)])]

\* networkRequests.find(r => r.url === response.url()): its index, 0 for none
FindRequest(reqs, url) ==
  LET hits == {i \in 1..Len(reqs) : reqs[i].url = url}
  IN IF hits = {} THEN 0 ELSE Min(hits)

WithResponse(req, status, headers) ==
  LET set == [status |-> status, responseHeaders |-> headers] @@ req
  IN IF status >= 400
     THEN [error |-> "HTTP " \o ToString(status)] @@ set
     ELSE set

\* page.on('response', ...)
onResponse(m, url, status, headers) ==
  LET i == FindRequest(m.debugContext.networkRequests, url)
  IN IF i = 0 THEN m
     ELSE [m EXCEPT !.debugContext.networkRequests[i] =
             WithResponse(@, status, headers)]

\* page.on('console', ...)
onConsole(m, type, text) ==
  LET consoleError ==
        [type |-> type,
         message |-> text,
         isMimeType |-> Includes(toLowerCase(text), "mime type"),
         isBootstrapJS |-> Includes(toLowerCase(text), "bootstrap.js")]
  IN IF type = "error" \/ consoleError.isMimeType \/ consoleError.isBootstrapJS
     THEN [m EXCEPT !.debugContext.consoleErrors = Append(@, consoleError)]
     ELSE m

HasStatus(req) == "status" \in DOMAIN req /\ req.status # 0

-----------------------------------------------------------------------------
(* Phase 1 *)

\* the baseline rules, had the Host replacement been left to a later phase
DefaultRules_WithoutHost ==
  << [type |-> "default", action |-> "enable",
      description |-> "Enable default proxy rules - ALWAYS FIRST STEP",
      priority |-> 1],
     [type |-> "header", action |-> "add",
      headerName |-> "X-Forwarded-Host",
      headerValue |-> "{{DEVICE_EXTERNAL_FQDN}}",
      description |-> "Add forwarded host header for proper routing",
      priority |-> 2],
     [type |-> "header", action |-> "add",
      headerName |-> "X-Forwarded-Proto",
      headerValue |-> "https",
      description |-> "Add forwarded protocol header for HTTPS",
      priority |-> 3] >>

DefaultRules ==
  << [type |-> "default", action |-> "enable",
      description |-> "Enable default proxy rules - ALWAYS FIRST STEP",
      priority |-> 1],
     [type |-> "header", action |-> "add",
      headerName |-> "X-Forwarded-Host",
      headerValue |-> "{{DEVICE_EXTERNAL_FQDN}}",
      description |-> "Add forwarded host header for proper routing",
      priority |-> 2],
     [type |-> "header", action |-> "add",
      headerName |-> "X-Forwarded-Proto",
      headerValue |-> "https",
      description |-> "Add forwarded protocol header for HTTPS",
      priority |-> 3],
     [type |-> "header", action |-> "replace",
      headerName |-> "Host",
      pattern |-> ".*",
      replacement |-> "{{DEVICE_INTERNAL_IP}}",
      description |-> "Replace host header with device internal IP",
      priority |-> 4] >>

step1_Unguarded(m0) ==
  LET m1 == [m0 EXCEPT
               !.debugContext.currentStep = "Step 1: Enable Default Rules",
               !.debugContext.defaultRulesEnabled = TRUE]
      m2 == PushRules(m1, DefaultRules)
  IN Done(PushIssues(m2,
       <<"Default rules enabled - baseline proxy configuration applied">>))

step1_EnableDefaultRules(m0) ==
  IF m0.debugContext.defaultRulesEnabled THEN Done(m0)
  ELSE LET m1 == [m0 EXCEPT
                    !.debugContext.currentStep = "Step 1: Enable Default Rules",
                    !.debugContext.defaultRulesEnabled = TRUE]
           m2 == PushRules(m1, DefaultRules)
       IN Done(PushIssues(m2,
            <<"Default rules enabled - baseline proxy configuration applied">>))

-----------------------------------------------------------------------------
(* Phase 2 *)

\* page.goto throws on a URL the browser cannot parse
GotoError(m, env) ==
  IF ~ParseURL(m.debugContext.deviceUrl).ok
  THEN "Cannot navigate to invalid URL"
  ELSE env.goto.error

\* the verdict, had the status been looked at before the login form
PageLoadVerdict_StatusFirst(m0, status, pageContent) ==
  IF ~pageContent.hasBody \/ pageContent.bodyLength < 100
  THEN PushIssues([m0 EXCEPT !.debugContext.pageLoadStatus = "not_loaded"],
         <<"Web page is not loaded at all - no content detected">>)
  ELSE IF status # 200
  THEN PushIssues([m0 EXCEPT !.debugContext.pageLoadStatus = "partially_loaded"],
         <<"Web page is partially loaded - missing login elements">>)
  ELSE IF pageContent.hasLoginForm
  THEN PushIssues([m0 EXCEPT !.debugContext.pageLoadStatus = "fully_loaded"],
         <<"Web page loaded successfully with login form detected">>)
  ELSE [m0 EXCEPT !.debugContext.pageLoadStatus = "fully_loaded"]

PageLoadVerdict(m0, status, pageContent) ==
  LET m1 ==
        IF ~pageContent.hasBody \/ pageContent.bodyLength < 100
        THEN PushIssues([m0 EXCEPT !.debugContext.pageLoadStatus = "not_loaded"],
               <<"Web page is not loaded at all - no content detected">>)
        ELSE IF ~pageContent.hasLoginForm /\ status # 200
        THEN PushIssues([m0 EXCEPT !.debugContext.pageLoadStatus = "partially_loaded"],
               <<"Web page is partially loaded - missing login elements">>)
        ELSE IF pageContent.hasLoginForm
        THEN PushIssues([m0 EXCEPT !.debugContext.pageLoadStatus = "fully_loaded"],
               <<"Web page loaded successfully with login form detected">>)
        ELSE [m0 EXCEPT !.debugContext.pageLoadStatus = "fully_loaded"]
  IN IF pageContent.hasTryAgainMessage
     THEN PushIssues(m1,
            <<"LOGIN ISSUE: 'Try again' message detected - common after device upgrade",
              "RECOMMENDATION: Apply comprehensive rewrite rules and check for Alpha weblink requirement">>)
     ELSE m1

step2_AnalyzePageLoading(m0, env) ==
  IF m0.debugContext.deviceUrl = "" \/ m0.page = "null" THEN Done(m0)
  ELSE
    LET m1 == Called([m0 EXCEPT !.debugContext.currentStep =
                        "Step 2: Analyze Page Loading Status"], "page.goto")
        failed(m, e) ==
          PushIssues([m EXCEPT !.debugContext.pageLoadStatus = "not_loaded"],
                     <<"Page loading failed with error: " \o ErrorText(e)>>)
        m2 == [m1 EXCEPT !.page = "navigated"]
        m3 == Called(m2, "page.evaluate")
    IN IF GotoError(m1, env) # "" THEN Done(failed(m1, GotoError(m1, env)))
       ELSE IF ~env.goto.hasResponse
       THEN Done(PushIssues(
              [m2 EXCEPT !.debugContext.pageLoadStatus = "not_loaded"],
              <<"CRITICAL: Web page is not loaded at all - no response from device">>))
       ELSE IF env.goto.status = 400
       THEN Done(PushRules(
              PushIssues(
                [m2 EXCEPT !.debugContext.pageLoadStatus = "not_loaded"],
                <<"ERROR 400 hostname invalid - device requires specific hostname">>),
              << [type |-> "header", action |-> "add",
                  headerName |-> "Host",
                  headerValue |-> IF m2.debugContext.deviceHostname # ""
                                  THEN m2.debugContext.deviceHostname
                                  ELSE "{{DEVICE_HOSTNAME}}",
                  description |-> "Fix hostname requirement for device (Error 400)",
                  priority |-> 10],
                 [type |-> "header", action |-> "add",
                  headerName |-> "X-Real-IP",
                  headerValue |-> "{{DEVICE_REAL_IP}}",
                  description |-> "Add real IP address for device authentication",
                  priority |-> 11] >>))
       ELSE IF env.pageContent.error # ""
       THEN Done(failed(m3, env.pageContent.error))
       ELSE Done(PageLoadVerdict(m3, env.goto.status, env.pageContent))

-----------------------------------------------------------------------------
(* Phase 3 *)

\* the concatenation of the sequences a forEach contributes, item by item
RECURSIVE Flatten(_)
Flatten(seqs) ==
  IF seqs = <<>> THEN <<>> ELSE Head(seqs) \o Flatten(Tail(seqs))

Fqdn == "{{DEVICE_EXTERNAL_FQDN}}"

\* the rule pushed for one broken image or one device-IP link: the try branch
\* when new URL(src) succeeds, the catch branch otherwise
ResourceRuleOf(src, urlObj, parsedLabel, rawLabel, priority) ==
  IF urlObj.ok
  THEN [type |-> "body", action |-> "find_replace",
        pattern |-> urlObj.hostname \o urlObj.pathname,
        replacement |-> Fqdn \o urlObj.pathname,
        description |-> parsedLabel \o urlObj.pathname,
        priority |-> priority]
  ELSE [type |-> "body", action |-> "find_replace",
        pattern |-> src,
        replacement |-> ReplaceOriginAnchored(src, Fqdn),
        description |-> rawLabel \o src,
        priority |-> priority]

ImageRule(src) ==
  <<ResourceRuleOf(src, ParseURL(src),
      "Fix broken image resource: ", "Fix broken image: ", 20)>>

LinkRule(link) ==
  <<ResourceRuleOf(link, ParseURL(link),
      "Fix device IP link: ", "Fix device IP link: ", 21)>>

StaticRule(resource) ==
  [type |-> "body", action |-> "find_replace",
   pattern |-> resource,
   replacement |-> ReplaceOriginAnchored(resource, Fqdn),
   description |-> "Fix static resource path: " \o resource,
   priority |-> 22]

StaticRules(resource) ==
  IF Includes(resource, "/static/") \/ Includes(resource, "/assets/")
  THEN <<StaticRule(resource)>> ELSE <<>>

\* brokenImages.filter(img => this.isDeviceIPOrHostname(img.src))
DeviceSources(m, srcs) ==
  LET IsDevice(src) == isDeviceIPOrHostname(m, src)
  IN SelectSeq(srcs, IsDevice)

\* lines 413-443: broken images
BrokenImages(m, images) ==
  IF Len(images) > 0
  THEN PushRules(
         PushIssues([m EXCEPT !.debugContext.brokenImages = images],
           <<"RESOURCE ISSUE: Found " \o ToString(Len(images))
             \o " broken images pointing to device IP/hostname">>),
         Flatten([i \in 1..Len(images) |-> ImageRule(images[i])]))
  ELSE [m EXCEPT !.debugContext.brokenImages = images]

\* device-IP links, had line 445 pushed them behind the links of earlier runs
BrokenLinks_Append(m, links) ==
  IF Len(links) > 0
  THEN PushRules(
         PushIssues([m EXCEPT !.debugContext.brokenLinks = @ \o links],
           <<"LINK ISSUE: Found " \o ToString(Len(links))
             \o " links pointing to device IP - links not working">>),
         Flatten([i \in 1..Len(links) |-> LinkRule(links[i])]))
  ELSE m

\* lines 445-474: device-IP links
BrokenLinks(m, links) ==
  IF Len(links) > 0
  THEN PushRules(
         PushIssues([m EXCEPT !.debugContext.brokenLinks = links],
           <<"LINK ISSUE: Found " \o ToString(Len(links))
             \o " links pointing to device IP - links not working">>),
         Flatten([i \in 1..Len(links) |-> LinkRule(links[i])]))
  ELSE [m EXCEPT !.debugContext.brokenLinks = links]

\* lines 476-493: scripts and stylesheets
StaticResources(m, staticResources) ==
  IF Len(staticResources) > 0
  THEN PushRules(
         PushIssues(m, <<"STATIC RESOURCE ISSUE: Found "
            \o ToString(Len(staticResources))
            \o " static resources that may need rewriting">>),
         Flatten([i \in 1..Len(staticResources) |-> StaticRules(staticResources[i])]))
  ELSE m

ResourceFindings(m, ra) ==
  IF ra.error # ""
  THEN PushIssues(m, <<"Resource analysis failed: " \o ErrorText(ra.error)>>)
  ELSE StaticResources(
         BrokenLinks(BrokenImages(m, DeviceSources(m, ra.brokenImages)),
                     ra.deviceIPLinks),
         ra.scriptSources \o ra.stylesheetSources)

\* phase 3, had the step label been set before the page guard
step3_AnalyzeResources_LabelFirst(m0, env) ==
  LET m1 == [m0 EXCEPT !.debugContext.currentStep =
               "Step 3: Analyze Resources (Images, Links, Static Files)"]
  IN IF m0.page = "null" THEN Done(m1)
     ELSE Done(ResourceFindings(Called(m1, "page.evaluate"), env.resourceAnalysis))

step3_AnalyzeResources(m0, env) ==
  IF m0.page = "null" THEN Done(m0)
  ELSE Done(ResourceFindings(
              Called([m0 EXCEPT !.debugContext.currentStep =
                        "Step 3: Analyze Resources (Images, Links, Static Files)"],
                     "page.evaluate"),
              env.resourceAnalysis))

-----------------------------------------------------------------------------
(* Phase 4 *)

\* the ports, had the TLS port been left out
commonPorts_NoTls == <<"8080", "8081", "9001">>

commonPorts == <<"8080", "8081", "8443", "9001">>

WebSocketRule(hostname, port) ==
  [type |-> "body", action |-> "find_replace",
   pattern |-> "ws://" \o hostname \o ":" \o port,
   replacement |-> "wss://" \o Fqdn \o ":" \o port,
   description |-> "Fix WebSocket connection on port " \o port,
   priority |-> 30]

\* phase 4, had it probed the markup once per keyword group
step4_AnalyzeWebSocket_ProbeTwice(m0, env) ==
  LET m1 == [m0 EXCEPT !.debugContext.currentStep = "Analyze WebSocket Connections"]
  IN IF m1.page = "null" THEN Done(m1)
     ELSE Done(Called(Called(m1, "page.evaluate"), "page.evaluate"))

step4_AnalyzeWebSocket(m0, env) ==
  LET m1 == [m0 EXCEPT !.debugContext.currentStep = "Analyze WebSocket Connections"]
      m2 == Called(m1, "page.evaluate")
      m3 == PushIssues(
              [m2 EXCEPT !.debugContext.websocketIssues =
                 Append(@, "WebSocket connections detected")],
              <<"WebSocket connections detected - may need special proxy handling">>)
      deviceUrl == ParseURL(m3.debugContext.deviceUrl)
      PortRule(port) == <<WebSocketRule(deviceUrl.hostname, port)>>
  IN IF m1.page = "null" THEN Done(m1)
     ELSE IF env.hasWebSocket.error # ""
     THEN Done(PushIssues(m2,
            <<"WebSocket analysis failed: " \o ErrorText(env.hasWebSocket.error)>>))
     ELSE IF ~env.hasWebSocket.value THEN Done(m2)
     ELSE IF ~deviceUrl.ok
     THEN Done(PushIssues(m3, <<"WebSocket analysis failed: TypeError: Invalid URL">>))
     ELSE Done(PushRules(m3, Flatten([i \in 1..Len(commonPorts) |-> PortRule(commonPorts[i])])))

-----------------------------------------------------------------------------
(* Phase 5 *)

IsRedirect(req) == HasStatus(req) /\ req.status >= 300 /\ req.status < 400

RedirectFindingsOf(location, port) ==
  [issues |->
     IF port # ""
     THEN <<"Device redirects to port " \o port
            \o " - consider onboarding with this port">>
     ELSE <<>>,
   rules |->
     << [type |-> "header", action |-> "replace",
         headerName |-> "Location",
         pattern |-> location,
         replacement |-> ReplaceOrigin(location, Fqdn),
         description |-> "Fix redirect to: " \o location,
         priority |-> 40] >>]

LocationOf(redirect) ==
  IF "responseHeaders" \in DOMAIN redirect
  THEN Header(redirect.responseHeaders, "location") ELSE ""

RedirectLocation(location) ==
  IF location = "" THEN [issues |-> <<>>, rules |-> <<>>]
  ELSE RedirectFindingsOf(location, PortMatch(location))

RedirectFindings(redirect) == RedirectLocation(LocationOf(redirect))

\* redirects.forEach(...): issues and rules are pushed redirect by redirect
RECURSIVE ForEachRedirect(_, _)
ForEachRedirect(m, redirects) ==
  IF redirects = <<>> THEN m
  ELSE ForEachRedirect(PushFindings(m, RedirectFindings(Head(redirects))),
                       Tail(redirects))

RedirectsFound(m, redirects) ==
  IF Len(redirects) > 0
  THEN ForEachRedirect(
         PushIssues([m EXCEPT !.debugContext.redirects = redirects],
           <<"Found " \o ToString(Len(redirects))
             \o " redirects - potential for redirect loops">>),
         redirects)
  ELSE [m EXCEPT !.debugContext.redirects = redirects]

step5_AnalyzeRedirects(m0) ==
  Done(RedirectsFound(
         [m0 EXCEPT !.debugContext.currentStep = "Analyze Redirects"],
         SelectSeq(m0.debugContext.networkRequests, IsRedirect)))

-----------------------------------------------------------------------------
(* Phase 6 *)

IsNetworkError(req) == HasStatus(req) /\ req.status >= 400

IsStaticPath(url) ==
  \/ Includes(url, "/static/")
  \/ Includes(url, "/assets/")
  \/ Includes(url, "/js/")
  \/ Includes(url, "/css/")

\* lines 593-615: the rule for a failed static file of the device
NetworkErrorRule(error, urlObj) ==
  IF urlObj.ok
  THEN [type |-> "body", action |-> "find_replace",
        pattern |-> urlObj.hostname \o urlObj.pathname,
        replacement |-> Fqdn \o urlObj.pathname,
        description |-> "Fix " \o ToString(error.status)
           \o " error for static resource: " \o urlObj.pathname,
        priority |-> 50]
  ELSE [type |-> "body", action |-> "find_replace",
        pattern |-> error.url,
        replacement |-> ReplaceOriginAnchored(error.url, Fqdn),
        description |-> "Fix " \o ToString(error.status)
           \o " error for: " \o error.url,
        priority |-> 50]

\* the findings without the isDeviceIP test of line 591
NetworkErrorFindings_AnyStatic(error) ==
  [issues |->
     IF error.status = 404
     THEN <<"404 ERROR: " \o error.url \o " - resource not found">>
     ELSE IF error.status = 500
     THEN <<"500 ERROR: " \o error.url \o " - server error">>
     ELSE <<>>,
   rules |->
     IF IsStaticPath(error.url)
     THEN <<NetworkErrorRule(error, ParseURL(error.url))>>
     ELSE <<>>]

NetworkErrorFindings(error) ==
  [issues |->
     IF error.status = 404
     THEN <<"404 ERROR: " \o error.url \o " - resource not found">>
     ELSE IF error.status = 500
     THEN <<"500 ERROR: " \o error.url \o " - server error">>
     ELSE <<>>,
   rules |->
     IF error.isDeviceIP /\ IsStaticPath(error.url)
     THEN <<NetworkErrorRule(error, ParseURL(error.url))>>
     ELSE <<>>]

RECURSIVE ForEachNetworkError(_, _)
ForEachNetworkError(m, errors) ==
  IF errors = <<>> THEN m
  ELSE ForEachNetworkError(PushFindings(m, NetworkErrorFindings(Head(errors))),
                           Tail(errors))

MimeTypeRules ==
  << [type |-> "header", action |-> "add",
      headerName |-> "Content-Type",
      headerValue |-> "application/javascript",
      condition |-> "path ends with .js",
      description |-> "Fix MIME type mismatch for JavaScript files",
      priority |-> 60],
     [type |-> "header", action |-> "add",
      headerName |-> "Content-Type",
      headerValue |-> "text/css",
      condition |-> "path ends with .css",
      description |-> "Fix MIME type mismatch for CSS files",
      priority |-> 61] >>

BootstrapRule ==
  [type |-> "body", action |-> "find_replace",
   pattern |-> "https",
   replacement |-> "spdy",
   path |-> "bootstrap.js",
   description |-> "Fix bootstrap.js HTTPS protocol issue (DSD-3756) - Critical OT fix",
   priority |-> 70]

PrivateApiRule(apiCall) ==
  << [type |-> "body", action |-> "find_replace",
      pattern |-> "{{DEVICE_IP}}",
      replacement |-> Fqdn,
      path |-> IF Includes(apiCall.url, "/private-api/")
               THEN "/private-api/*" ELSE "/api/private/*",
      description |-> "JSON body rewrite for private API: " \o apiCall.url,
      priority |-> 75] >>

ConsolePatterns(message, l) ==
  (IF Includes(l, "websocket")
   THEN <<"WEBSOCKET CONSOLE ERROR: " \o message>> ELSE <<>>)
  \o (IF Includes(l, "cors")
      THEN <<"CORS ERROR: " \o message \o " - may need header rules">>
      ELSE <<>>)
  \o (IF Includes(l, "certificate")
      THEN <<"SSL CERTIFICATE ERROR: " \o message>> ELSE <<>>)

ConsolePatternIssues(error) ==
  ConsolePatterns(error.message, toLowerCase(error.message))

IsMimeTypeError(err) == err.isMimeType
IsBootstrapError(err) == err.isBootstrapJS
IsPrivateApiCall(req) == req.isPrivateAPI

\* lines 579-618
NetworkErrors(m, networkErrors) ==
  IF Len(networkErrors) > 0
  THEN ForEachNetworkError(
         PushIssues(m, <<"NETWORK ERRORS: Found "
            \o ToString(Len(networkErrors))
            \o " network errors (404/500)">>),
         networkErrors)
  ELSE m

\* lines 621-647
MimeTypeErrors(m, mimeTypeErrors) ==
  IF Len(mimeTypeErrors) > 0
  THEN PushRules(
         PushIssues(m, <<"MIME TYPE ISSUE: " \o ToString(Len(mimeTypeErrors))
            \o " MIME type mismatch errors detected in console">>),
         MimeTypeRules)
  ELSE m

\* the bootstrap findings, had the rule been pushed for every flagged entry
BootstrapErrors_PerEntry(m, bootstrapErrors) ==
  IF Len(bootstrapErrors) > 0
  THEN PushRules(
         PushIssues(m,
           <<"BOOTSTRAP.JS ISSUE: Bootstrap.js HTTPS protocol issue detected (Reference: DSD-3756)",
             "ROOT CAUSE: Device configured as HTTP but accessed via HTTPS through RA portal",
             "NOTE: If bootstrap.js file is updated, this rule may need adjustment",
             "ALTERNATIVE: If HTTPS is properly configured on device, onboard as HTTPS and remove this rule">>),
         [i \in 1..Len(bootstrapErrors) |-> BootstrapRule])
  ELSE m

\* lines 649-666
BootstrapErrors(m, bootstrapErrors) ==
  IF Len(bootstrapErrors) > 0
  THEN PushRules(
         PushIssues(m,
           <<"BOOTSTRAP.JS ISSUE: Bootstrap.js HTTPS protocol issue detected (Reference: DSD-3756)",
             "ROOT CAUSE: Device configured as HTTP but accessed via HTTPS through RA portal",
             "NOTE: If bootstrap.js file is updated, this rule may need adjustment",
             "ALTERNATIVE: If HTTPS is properly configured on device, onboard as HTTPS and remove this rule">>),
         <<BootstrapRule>>)
  ELSE m

\* lines 669-687
PrivateApiCalls(m, privateAPICalls) ==
  IF Len(privateAPICalls) > 0
  THEN PushRules(
         PushIssues(m,
           <<"PRIVATE API ISSUE: Found " \o ToString(Len(privateAPICalls))
               \o " private API calls - may need JSON body rewrite",
             "IMPORTANT: Enable JSON body rewrite for private API endpoints">>),
         Flatten([i \in 1..Len(privateAPICalls) |-> PrivateApiRule(privateAPICalls[i])]))
  ELSE m

\* lines 690-700
ConsolePatternsOf(m, consoleErrors) ==
  PushIssues(m, Flatten([i \in 1..Len(consoleErrors) |-> ConsolePatternIssues(consoleErrors[i])]))

\* the filters read networkRequests and consoleErrors, which the phase does
\* not write
NetworkAndConsoleFindings(m, networkRequests, consoleErrors) ==
  ConsolePatternsOf(
    PrivateApiCalls(
      BootstrapErrors(
        MimeTypeErrors(
          NetworkErrors(m, SelectSeq(networkRequests, IsNetworkError)),
          SelectSeq(consoleErrors, IsMimeTypeError)),
        SelectSeq(consoleErrors, IsBootstrapError)),
      SelectSeq(networkRequests, IsPrivateApiCall)),
    consoleErrors)

step6_AnalyzeNetworkAndConsole(m0) ==
  Done(NetworkAndConsoleFindings(
         [m0 EXCEPT !.debugContext.currentStep =
            "Step 6: Analyze Network Failures and Console Errors"],
         m0.debugContext.networkRequests,
         m0.debugContext.consoleErrors))

-----------------------------------------------------------------------------
(* Phase 7 *)

\* fetch throws on a URL it cannot parse (the empty string included)
FetchError(m, env) ==
  IF ~ParseURL(m.debugContext.deviceUrl).ok
  THEN "TypeError: Failed to parse URL"
  ELSE IF env.fetch.error # "" THEN ErrorText(env.fetch.error)
  ELSE ""

\* wwwAuth.match(/realm="([^"]+)"/): the captured realm, "" for no match
RealmStarts(s) ==
  {i \in 1..Len(s) :
     /\ HasAt(s, i, "realm=\"")
     /\ ScanChars(s, i + 7, {"\""}) > i + 7
     /\ ScanChars(s, i + 7, {"\""}) <= Len(s)}

RealmMatchAt(s, i) == SubSeq(s, i + 7, ScanChars(s, i + 7, {"\""}) - 1)

RealmMatchIn(s, starts) == IF starts = {} THEN "" ELSE RealmMatchAt(s, Min(starts))

RealmMatch(s) == RealmMatchIn(s, RealmStarts(s))

KnownPorts == {"443", "8443", "8501", "8080", "80"}

\* lines 731-759, given the port the Location header names and whether it
\* points at the device
LocationFindingsOf(locationHeader, port, device) ==
  [issues |->
     <<"REDIRECT DETECTED: Location header points to " \o locationHeader>>
     \o (IF device
         THEN <<"REDIRECT ISSUE: Location header contains device IP/hostname">>
         ELSE <<>>)
     \o (IF port # ""
         THEN <<"PORT RECOMMENDATION: Device redirects to port " \o port
                \o " - consider onboarding with this port">>
         ELSE <<>>)
     \o (IF port \in KnownPorts
         THEN <<"KNOWN PORT: Port " \o port \o " is a common OT device port">>
         ELSE <<>>),
   rules |->
     IF device
     THEN << [type |-> "header", action |-> "replace",
              headerName |-> "Location",
              pattern |-> locationHeader,
              replacement |-> ReplaceOrigin(locationHeader, Fqdn),
              description |-> "Fix Location header hostname reference",
              priority |-> 80] >>
     ELSE <<>>]

NoFindings == [issues |-> <<>>, rules |-> <<>>]

LocationFindings(m, locationHeader) ==
  IF locationHeader = "" THEN NoFindings
  ELSE LocationFindingsOf(locationHeader, PortMatch(locationHeader),
                          isDeviceIPOrHostname(m, locationHeader))

\* the Server findings, had the rule been pushed for each keyword found
ServerFindings_PerKeyword(serverHeader) ==
  LET rule == [type |-> "header", action |-> "add",
               headerName |-> "Host",
               headerValue |-> "{{DEVICE_HOSTNAME}}",
               description |-> "Server requires specific hostname",
               priority |-> 81]
  IN [issues |-> <<>>,
      rules |-> (IF Includes(serverHeader, "hostname") THEN <<rule>> ELSE <<>>)
                \o (IF Includes(serverHeader, "Host") THEN <<rule>> ELSE <<>>)]

\* lines 762-774
ServerFindings(serverHeader) ==
  IF serverHeader # ""
     /\ (Includes(serverHeader, "hostname") \/ Includes(serverHeader, "Host"))
  THEN [issues |->
          <<"HOSTNAME REQUIREMENT: Server header indicates hostname requirement: "
            \o serverHeader>>,
        rules |->
          << [type |-> "header", action |-> "add",
              headerName |-> "Host",
              headerValue |-> "{{DEVICE_HOSTNAME}}",
              description |-> "Server requires specific hostname",
              priority |-> 81] >>]
  ELSE NoFindings

\* lines 777-786
AuthFindingsOf(wwwAuth, realm) ==
  [issues |->
     <<"AUTHENTICATION: " \o wwwAuth>>
     \o (IF Includes(wwwAuth, "realm") /\ realm # ""
         THEN <<"AUTH REALM: " \o realm>> ELSE <<>>),
   rules |-> <<>>]

AuthFindings(wwwAuth) ==
  IF wwwAuth = "" THEN NoFindings
  ELSE AuthFindingsOf(wwwAuth, RealmMatch(wwwAuth))

\* lines 789-795
CspFindings(csp) ==
  IF csp = "" THEN NoFindings
  ELSE [issues |->
          <<"CSP DETECTED: Content Security Policy may block proxy resources">>
          \o (IF Includes(csp, "localhost") \/ Includes(csp, "127.0.0.1")
                 \/ Includes(csp, "192.168.")
              THEN <<"CSP ISSUE: Policy contains local references that may cause issues">>
              ELSE <<>>),
        rules |-> <<>>]

\* lines 798-801
HstsFindings(hsts) ==
  IF hsts = "" THEN NoFindings
  ELSE [issues |->
          <<"HSTS DETECTED: " \o hsts \o " - may affect HTTP to HTTPS transitions">>,
        rules |-> <<>>]

\* lines 804-819
CookieFindings(m, setCookie) ==
  IF setCookie # "" /\ Includes(setCookie, "domain=")
     /\ isDeviceIPOrHostname(m, setCookie)
  THEN [issues |->
          <<"COOKIE DOMAIN ISSUE: Set-Cookie contains device domain - may need rewrite">>,
        rules |->
          << [type |-> "header", action |-> "replace",
              headerName |-> "Set-Cookie",
              pattern |-> "domain=[^;]+",
              replacement |-> "domain={{DEVICE_EXTERNAL_FQDN}}",
              description |-> "Fix cookie domain reference",
              priority |-> 82] >>]
  ELSE NoFindings

\* lines 822-825
FrameFindings(xFrame) ==
  IF xFrame # "" /\ (Includes(xFrame, "DENY") \/ Includes(xFrame, "SAMEORIGIN"))
  THEN [issues |->
          <<"X-FRAME-OPTIONS: " \o xFrame
            \o " - may prevent iframe embedding in RA portal">>,
        rules |-> <<>>]
  ELSE NoFindings

\* lines 727-825: the headers are examined in this order
HeaderFindings(m, headers) ==
  PushFindings(
    PushFindings(
      PushFindings(
        PushFindings(
          PushFindings(
            PushFindings(
              PushFindings(m, LocationFindings(m, Header(headers, "location"))),
              ServerFindings(Header(headers, "server"))),
            AuthFindings(Header(headers, "www-authenticate"))),
          CspFindings(Header(headers, "content-security-policy"))),
        HstsFindings(Header(headers, "strict-transport-security"))),
      CookieFindings(m, Header(headers, "set-cookie"))),
    FrameFindings(Header(headers, "x-frame-options")))

\* lines 717-825: the fetch has answered r; no redirect is followed, so
\* response.url is the URL that was requested
CurlFindings(m, r) ==
  HeaderFindings(
    PushIssues(
      [m EXCEPT !.debugContext.curlResults =
         [status |-> r.status, statusText |-> r.statusText,
          headers |-> r.headers, url |-> m.debugContext.deviceUrl]],
      <<"CURL ANALYSIS: HTTP " \o ToString(r.status) \o " " \o r.statusText>>),
    r.headers)

CurlOutcome(m, env, fetchError) ==
  IF fetchError # ""
  THEN PushIssues(m,
         <<"Curl analysis failed: " \o fetchError,
           "RECOMMENDATION: Try accessing device directly via jbox browser for manual analysis">>)
  ELSE CurlFindings(m, env.fetch)

\* lines 703-708: phase 7 up to its await of fetch
step7_Awaits(m0) ==
  Called([m0 EXCEPT !.debugContext.currentStep =
            "Step 7: Perform Detailed Curl Analysis"], "fetch")

\* phase 7 resumed without the manual-fallback recommendation
step7_Settles_NoFallback(m, env) ==
  IF FetchError(m, env) # ""
  THEN PushIssues(m, <<"Curl analysis failed: " \o FetchError(m, env)>>)
  ELSE CurlFindings(m, env.fetch)

\* lines 708-832: phase 7 from the moment fetch settles, on the fields as
\* they are by then
step7_Settles(m, env) == CurlOutcome(m, env, FetchError(m, env))

\* phase 7 without its catch clause
step7_Uncaught(m0, env) ==
  IF FetchError(m0, env) # ""
  THEN Raise(Called([m0 EXCEPT !.debugContext.currentStep =
                       "Step 7: Perform Detailed Curl Analysis"], "fetch"),
             FetchError(m0, env))
  ELSE Done(CurlFindings(
              Called([m0 EXCEPT !.debugContext.currentStep =
                        "Step 7: Perform Detailed Curl Analysis"], "fetch"),
              env.fetch))

step7_PerformCurlAnalysis(m0, env) ==
  Done(CurlOutcome(
         Called([m0 EXCEPT !.debugContext.currentStep =
                   "Step 7: Perform Detailed Curl Analysis"], "fetch"),
         env, FetchError(m0, env)))

-----------------------------------------------------------------------------
(* Teardown *)

\* the teardown, had it closed the browser and left the page
closeBrowser_BrowserOnly(m0, env) ==
  LET m1 == IF m0.browser # "null" THEN Called(m0, "browser.close") ELSE m0
  IN IF m0.browser # "null" /\ env.browserClose # ""
     THEN Raise(m1, env.browserClose)
     ELSE Done([m1 EXCEPT !.browser = "null"])

closeBrowser_PageOnly(m0, env) ==
  LET m1 == IF m0.page # "null" THEN Called(m0, "page.close") ELSE m0
  IN IF m0.page # "null" /\ env.pageClose # "" THEN Raise(m1, env.pageClose)
     ELSE Done([m1 EXCEPT !.page = "null"])

closeBrowser(m0, env) ==
  LET m1 == IF m0.page # "null" THEN Called(m0, "page.close") ELSE m0
      m2 == [m1 EXCEPT !.page = "null"]
      m3 == IF m2.browser # "null" THEN Called(m2, "browser.close") ELSE m2
  IN IF m0.page # "null" /\ env.pageClose # "" THEN Raise(m1, env.pageClose)
     ELSE IF m2.browser # "null" /\ env.browserClose # ""
     THEN Raise(m3, env.browserClose)
     ELSE Done([m3 EXCEPT !.browser = "null"])

-----------------------------------------------------------------------------
(* Report *)

\* Array.prototype.sort((a, b) => a.priority - b.priority) is stable
\* (ECMAScript 2019): an element goes behind every element that does not
\* compare greater.
RECURSIVE InsertByPriority(_, _)
InsertByPriority(sorted, r) ==
  IF sorted = <<>> THEN <<r>>
  ELSE IF Head(sorted).priority - r.priority <= 0
  THEN <<Head(sorted)>> \o InsertByPriority(Tail(sorted), r)
  ELSE <<r>> \o sorted

RECURSIVE InsertBeforeEqual(_, _)
InsertBeforeEqual(sorted, r) ==
  IF sorted = <<>> THEN <<r>>
  ELSE IF Head(sorted).priority - r.priority < 0
  THEN <<Head(sorted)>> \o InsertBeforeEqual(Tail(sorted), r)
  ELSE <<r>> \o sorted

RECURSIVE SortInto_Unstable(_, _)
SortInto_Unstable(sorted, rest) ==
  IF rest = <<>> THEN sorted
  ELSE SortInto_Unstable(InsertBeforeEqual(sorted, Head(rest)), Tail(rest))

SortByPriority_Unstable(rules) == SortInto_Unstable(<<>>, rules)

RECURSIVE SortInto(_, _)
SortInto(sorted, rest) ==
  IF rest = <<>> THEN sorted
  ELSE SortInto(InsertByPriority(sorted, Head(rest)), Tail(rest))

SortByPriority(rules) == SortInto(<<>>, rules)

IsDefaultRule(r) == r.type = "default"
IsHeaderRule(r) == r.type = "header"
IsBodyRule(r) == r.type = "body"

\* the partition, had bodyRewrites taken every rule that is not a header rule
Partition_BodyIsNotHeader(sortedRules) ==
  LET IsNotHeaderRule(r) == r.type # "header"
  IN [defaultRules |-> SelectSeq(sortedRules, IsDefaultRule),
      headerRewrites |-> SelectSeq(sortedRules, IsHeaderRule),
      bodyRewrites |-> SelectSeq(sortedRules, IsNotHeaderRule),
      totalRules |-> Len(sortedRules)]

\* rewriteRulesForRAPortal
Partition(sortedRules) ==
  [defaultRules |-> SelectSeq(sortedRules, IsDefaultRule),
   headerRewrites |-> SelectSeq(sortedRules, IsHeaderRule),
   bodyRewrites |-> SelectSeq(sortedRules, IsBodyRule),
   totalRules |-> Len(sortedRules)]

AnyIssue(issues, text) == \E i \in 1..Len(issues) : Includes(issues[i], text)

\* the report object, without its five fixed checklists (immediateActions,
\* troubleshootingSteps, escalationPath, customerRequirements,
\* commonOTDevicePorts), which are literals
ReportOf(m, sortedRules) ==
  LET dc == m.debugContext
      Is404(r) == "status" \in DOMAIN r /\ r.status = 404
      Is500(r) == "status" \in DOMAIN r /\ r.status = 500
      IsDevice(r) == r.isDeviceIP
      MentionsWebsocket(e) == Includes(e.message, "websocket")
  IN [summary |->
        [deviceUrl |-> dc.deviceUrl,
         deviceIP |-> dc.deviceIP,
         deviceHostname |-> dc.deviceHostname,
         pageLoadStatus |-> dc.pageLoadStatus,
         totalIssues |-> Len(dc.issues),
         totalRules |-> Len(sortedRules),
         stepsCompleted |-> Len(m.thoughtHistory)],
      issuesFound |-> dc.issues,
      rewriteRulesForRAPortal |-> Partition(sortedRules),
      networkAnalysis |->
        [totalRequests |-> Len(dc.networkRequests),
         errors404 |-> Len(SelectSeq(dc.networkRequests, Is404)),
         errors500 |-> Len(SelectSeq(dc.networkRequests, Is500)),
         privateAPICalls |-> Len(SelectSeq(dc.networkRequests, IsPrivateApiCall)),
         deviceIPRequests |-> Len(SelectSeq(dc.networkRequests, IsDevice)),
         recommendJSONBodyRewrite |->
           Len(SelectSeq(dc.networkRequests, IsPrivateApiCall)) > 0],
      consoleAnalysis |->
        [totalErrors |-> Len(dc.consoleErrors),
         mimeTypeErrors |-> Len(SelectSeq(dc.consoleErrors, IsMimeTypeError)),
         bootstrapJSErrors |-> Len(SelectSeq(dc.consoleErrors, IsBootstrapError)),
         websocketErrors |-> Len(SelectSeq(dc.consoleErrors, MentionsWebsocket))],
      resourceAnalysis |->
        [brokenImages |-> Len(dc.brokenImages),
         brokenLinks |-> Len(dc.brokenLinks),
         redirectsDetected |-> Len(dc.redirects)],
      otSpecificFindings |->
        [hostnameRequirement |-> AnyIssue(dc.issues, "hostname"),
         realIPRequirement |-> AnyIssue(dc.issues, "Real IP"),
         bootstrapJSIssue |-> AnyIssue(dc.issues, "bootstrap.js"),
         mimeTypeIssue |-> AnyIssue(dc.issues, "MIME type"),
         redirectIssue |-> AnyIssue(dc.issues, "redirect"),
         tryAgainError |-> AnyIssue(dc.issues, "Try again"),
         error400Hostname |-> AnyIssue(dc.issues, "400 hostname")]]

\* generateFinalReport: Array.prototype.sort sorts this.debugContext.rewriteRules
\* in place and returns that same array
generateFinalReport(m0) ==
  LET sortedRules == SortByPriority(m0.debugContext.rewriteRules)
      m1 == [m0 EXCEPT !.debugContext.rewriteRules = sortedRules,
                       !.reported = m0.debugContext]
  IN [m |-> m1, report |-> ReportOf(m1, sortedRules)]

-----------------------------------------------------------------------------
(* Step dispatcher *)

\* the property names a fresh object literal inherits from Object.prototype:
\* this.branches[id] is truthy for them although no branch was created
ObjectPrototypeKeys ==
  {"constructor", "toString", "toLocaleString", "valueOf", "hasOwnProperty",
   "isPrototypeOf", "propertyIsEnumerable", "__proto__"}

\* the property key a value is converted to
PropertyKey(x) ==
  CASE x.t = "string" -> x.v
    [] x.t = "number" -> ToString(x.v)
    [] x.t = "boolean" -> IF x.v THEN "true" ELSE "false"
    [] OTHER -> x.t

\* lines 853-856: deviceUrl is assigned before new URL can throw
SetTarget(m, urlObj) ==
  IF ~urlObj.ok THEN Raise(m, "Invalid URL")
  ELSE Done([m EXCEPT !.debugContext.deviceIP = urlObj.hostname,
                      !.debugContext.deviceHostname = urlObj.hostname])

\* target discovery without the !this.debugContext.deviceUrl guard
DiscoverTargetOf_Overwrite(m, urlMatch) ==
  IF urlMatch # ""
  THEN SetTarget([m EXCEPT !.debugContext.deviceUrl = urlMatch], ParseURL(urlMatch))
  ELSE Done(m)

\* lines 851-857, given urlMatch[0] ("" when the thought has no URL token)
DiscoverTargetOf(m, urlMatch) ==
  IF urlMatch # "" /\ m.debugContext.deviceUrl = ""
  THEN SetTarget([m EXCEPT !.debugContext.deviceUrl = urlMatch], ParseURL(urlMatch))
  ELSE Done(m)

\* thought.match(/https?:\/\/[^\s]+/)
UrlMatchOf(thought) ==
  IF thought \in Thoughts THEN UrlMatchTable[thought] ELSE UrlMatch(thought)

\* lines 850-857: target discovery
DiscoverTarget(m, thought) == DiscoverTargetOf(m, UrlMatchOf(thought))

\* the ledger step without the raise of totalThoughts (lines 859-861)
Ledger_NoRaise(m, v0) ==
  LET m1 == [m EXCEPT !.thoughtHistory = Append(@, v0)]
      id == PropertyKey(v0.branchId)
      own == id \in DOMAIN m1.branches
  IN IF Truthy(v0.branchFromThought) /\ Truthy(v0.branchId)
     THEN IF ~own /\ id \in ObjectPrototypeKeys
          THEN [r |-> Raise(m1, "this.branches[validatedInput.branchId].push is not a function"),
                v |-> v0]
          ELSE [r |-> Done([m1 EXCEPT !.branches =
                         [k \in DOMAIN m1.branches \cup {id} |->
                            IF k = id
                            THEN Append(IF own THEN m1.branches[id] ELSE <<>>, v0)
                            ELSE m1.branches[k]]]),
                v |-> v0]
     ELSE [r |-> Done(m1), v |-> v0]

\* lines 859-870: the ledger and the branches
Ledger(m, v0) ==
  LET v == IF v0.thoughtNumber > v0.totalThoughts
           THEN [v0 EXCEPT !.totalThoughts = v0.thoughtNumber] ELSE v0
      m1 == [m EXCEPT !.thoughtHistory = Append(@, v)]
      id == PropertyKey(v.branchId)
      own == id \in DOMAIN m1.branches
  IN IF Truthy(v.branchFromThought) /\ Truthy(v.branchId)
     THEN IF ~own /\ id \in ObjectPrototypeKeys
          THEN [r |-> Raise(m1, "this.branches[validatedInput.branchId].push is not a function"),
                v |-> v]
          ELSE [r |-> Done([m1 EXCEPT !.branches =
                         [k \in DOMAIN m1.branches \cup {id} |->
                            IF k = id
                            THEN Append(IF own THEN m1.branches[id] ELSE <<>>, v)
                            ELSE m1.branches[k]]]),
                v |-> v]
     ELSE [r |-> Done(m1), v |-> v]

\* lines 873-897: the branch of the if/else-if chain a thought takes, given
\* thought.toLowerCase()
BranchOf_CurlFirst(l) ==
  IF Includes(l, "start") \/ Includes(l, "initialize") THEN "step1"
  ELSE IF Includes(l, "page load") \/ Includes(l, "login page") THEN "step2"
  ELSE IF Includes(l, "images") \/ Includes(l, "links") \/ Includes(l, "resources")
  THEN "step3"
  ELSE IF Includes(l, "curl") \/ Includes(l, "header") THEN "step7"
  ELSE IF Includes(l, "websocket") \/ Includes(l, "ws://") THEN "step4"
  ELSE IF Includes(l, "redirect") \/ Includes(l, "port") THEN "step5"
  ELSE IF Includes(l, "network") \/ Includes(l, "console") \/ Includes(l, "error")
  THEN "step6"
  ELSE IF Includes(l, "finish") \/ Includes(l, "complete") THEN "close"
  ELSE "none"

BranchOf(l) ==
  IF Includes(l, "start") \/ Includes(l, "initialize") THEN "step1"
  ELSE IF Includes(l, "page load") \/ Includes(l, "login page") THEN "step2"
  ELSE IF Includes(l, "images") \/ Includes(l, "links") \/ Includes(l, "resources")
  THEN "step3"
  ELSE IF Includes(l, "websocket") \/ Includes(l, "ws://") THEN "step4"
  ELSE IF Includes(l, "redirect") \/ Includes(l, "port") THEN "step5"
  ELSE IF Includes(l, "network") \/ Includes(l, "console") \/ Includes(l, "error")
  THEN "step6"
  ELSE IF Includes(l, "curl") \/ Includes(l, "header") THEN "step7"
  ELSE IF Includes(l, "finish") \/ Includes(l, "complete") THEN "close"
  ELSE "none"

Branch(thought) == BranchOf(toLowerCase(thought))

BranchTable == [t \in Thoughts |-> Branch(t)]

BranchFor(thought) ==
  IF thought \in Thoughts THEN BranchTable[thought] ELSE Branch(thought)

\* await this.initBrowser(); await this.step1_EnableDefaultRules();
AfterInitBrowser(r) ==
  IF r.threw THEN r
  ELSE step1_EnableDefaultRules(Called(r.m, "step1_EnableDefaultRules"))

DispatchOn(b, m, env) ==
  CASE b = "step1" -> AfterInitBrowser(initBrowser(m, env))
    [] b = "step2" ->
         step2_AnalyzePageLoading(Called(m, "step2_AnalyzePageLoading"), env)
    [] b = "step3" ->
         step3_AnalyzeResources(Called(m, "step3_AnalyzeResources"), env)
    [] b = "step4" ->
         step4_AnalyzeWebSocket(Called(m, "step4_AnalyzeWebSocket"), env)
    [] b = "step5" ->
         step5_AnalyzeRedirects(Called(m, "step5_AnalyzeRedirects"))
    [] b = "step6" ->
         step6_AnalyzeNetworkAndConsole(Called(m, "step6_AnalyzeNetworkAndConsole"))
    [] b = "step7" ->
         step7_PerformCurlAnalysis(Called(m, "step7_PerformCurlAnalysis"), env)
    [] b = "close" -> closeBrowser(Called(m, "closeBrowser"), env)
    [] OTHER -> Done(m)

Dispatch(m, thought, env) == DispatchOn(BranchFor(thought), m, env)

\* lines 905-919
ResponseData(m, v) ==
  [thoughtNumber |-> v.thoughtNumber,
   totalThoughts |-> v.totalThoughts,
   nextThoughtNeeded |-> v.nextThoughtNeeded,
   currentStep |-> m.debugContext.currentStep,
   deviceUrl |-> m.debugContext.deviceUrl,
   pageLoadStatus |-> m.debugContext.pageLoadStatus,
   issuesFound |-> Len(m.debugContext.issues),
   rewriteRules |-> Len(m.debugContext.rewriteRules),
   networkRequests |-> Len(m.debugContext.networkRequests),
   consoleErrors |-> Len(m.debugContext.consoleErrors),
   brokenImages |-> Len(m.debugContext.brokenImages),
   brokenLinks |-> Len(m.debugContext.brokenLinks),
   redirects |-> Len(m.debugContext.redirects)]

\* lines 921-932: the text of the content item is the JSON encoding of body
Returned(m, body) ==
  [m |-> m,
   response |-> [outcome |-> "returned", isError |-> FALSE, body |-> body]]

\* (responseData as any).fullReport = this.generateFinalReport()
WithFullReport(g, responseData) ==
  Returned(g.m, [fullReport |-> g.report] @@ responseData)

\* the answer, had a terminal step released the browser and the page
Respond_ReleasesSession(m, v) ==
  IF ~v.nextThoughtNeeded
  THEN WithFullReport(generateFinalReport([m EXCEPT !.page = "null",
                                                    !.browser = "null"]),
                      ResponseData(m, v))
  ELSE Returned(m, ResponseData(m, v))

Respond_AlwaysReport(m, v) ==
  WithFullReport(generateFinalReport(m), ResponseData(m, v))

Respond(m, v) ==
  IF ~v.nextThoughtNeeded
  THEN WithFullReport(generateFinalReport(m), ResponseData(m, v))
  ELSE Returned(m, ResponseData(m, v))

\* lines 933-944: the catch clause
Caught(m, error) ==
  [m |-> m,
   response |-> [outcome |-> "returned", isError |-> TRUE,
                 body |-> [error |-> error, status |-> "failed"]]]

\* an exception that leaves the method: the promise rejects
Rejected(m, error) ==
  [m |-> m,
   response |-> [outcome |-> "rejected", isError |-> FALSE,
                 body |-> [error |-> error, status |-> "rejected"]]]

\* lines 873-932, the phase having settled as d
AfterDispatch(d, v) ==
  IF d.threw THEN Caught(d.m, d.error) ELSE Respond(d.m, v)

\* lines 865-932, the ledger step having settled as l
AfterLedger(l, env) ==
  IF l.r.threw THEN Caught(l.r.m, l.r.error)
  ELSE AfterDispatch(Dispatch(l.r.m, l.v.thought, env), l.v)

\* lines 859-932, target discovery having settled as t
AfterDiscovery(t, v, env) ==
  IF t.threw THEN Caught(t.m, t.error) ELSE AfterLedger(Ledger(t.m, v), env)

\* lines 848-932, the input having passed validation as v
Validated(m, v, env) == AfterDiscovery(DiscoverTarget(m, v.thought), v, env)

\* the validation settled as val, had it been made before the try block
ValidatedOutsideTry(m0, val, env) ==
  IF val.threw THEN Rejected(m0, val.error) ELSE Validated(m0, val.value, env)

\* the method, had its catch clause restored the fields the call began with
RolledBack(m0, r) == IF r.response.isError THEN [r EXCEPT !.m = m0] ELSE r

ValidatedInsideTry_RollBack(m0, val, env) ==
  IF val.threw THEN Caught(m0, val.error)
  ELSE RolledBack(m0, Validated(m0, val.value, env))

\* lines 846-944, the validation having settled as val
ValidatedInsideTry(m0, val, env) ==
  IF val.threw THEN Caught(m0, val.error) ELSE Validated(m0, val.value, env)

processLegacyDeviceDebug_ValidateOutsideTry(m0, input, env) ==
  ValidatedOutsideTry(m0, validateThoughtData(input), env)

processLegacyDeviceDebug(m0, input, env) ==
  ValidatedInsideTry(m0, validateThoughtData(input), env)

-----------------------------------------------------------------------------
(* What the collaborators may answer *)

EnvOk ==
  [launch |-> "", newContext |-> "", newPage |-> "",
   goto |-> [error |-> "", hasResponse |-> TRUE, status |-> 200],
   pageContent |-> [error |-> "", hasBody |-> TRUE, bodyLength |-> 2048,
                    hasLoginForm |-> TRUE, hasTryAgainMessage |-> FALSE],
   resourceAnalysis |->
     [error |-> "",
      brokenImages |-> <<"http://192.168.1.100:8080/img/logo.png",
                         "http://cdn.example.com/a.png">>,
      deviceIPLinks |-> <<"http://192.168.1.100:8080/status">>,
      scriptSources |-> <<"/static/app.js">>,
      stylesheetSources |-> <<"http://192.168.1.100:8080/css/site.css">>],
   hasWebSocket |-> [error |-> "", value |-> TRUE],
   fetch |-> [error |-> "", status |-> 302, statusText |-> "Found",
              headers |-> [k \in {"location", "server"} |->
                             IF k = "location"
                             THEN "http://192.168.1.100:8443/login"
                             ELSE "Host-checking httpd"]],
   pageClose |-> "", browserClose |-> ""]

\* every collaborator call fails
EnvFail ==
  [EnvOk EXCEPT
     !.launch = "browserType.launch: Executable doesn't exist",
     !.newContext = "browser.newContext: Target closed",
     !.newPage = "context.newPage: Target closed",
     !.goto.error = "page.goto: Timeout 30000ms exceeded",
     !.pageContent.error = "page.evaluate: Execution context was destroyed",
     !.resourceAnalysis.error = "page.evaluate: Execution context was destroyed",
     !.hasWebSocket.error = "page.evaluate: Execution context was destroyed",
     !.fetch.error = "fetch failed",
     !.pageClose = "page.close: Target closed",
     !.browserClose = "browser.close: Target closed"]

\* the page inspector answers, the page is bare, the prober finds no header
EnvBare ==
  [EnvOk EXCEPT
     !.goto.status = 400,
     !.resourceAnalysis.brokenImages = <<>>,
     !.resourceAnalysis.deviceIPLinks = <<>>,
     !.resourceAnalysis.scriptSources = <<>>,
     !.resourceAnalysis.stylesheetSources = <<>>,
     !.hasWebSocket.value = FALSE,
     !.fetch.status = 200,
     !.fetch.statusText = "OK",
     !.fetch.headers = NoHeaders]

-----------------------------------------------------------------------------
(* The tool inputs *)

\* a step with the given text, numbered 1 of 3, more steps to come
Step(text) == Obj(Str(text), Num(1), Num(3), Bool(TRUE), Undefined, Undefined)

\* the same, as the terminal step
FinalStep(text) == Obj(Str(text), Num(1), Num(3), Bool(FALSE), Undefined, Undefined)

StepThoughts ==
  {"start debugging http://192.168.1.100:8080",
   "Check page loading",
   "Analyze images and links",
   "Check WebSocket, then curl",
   "Check redirects",
   "Check network and console errors",
   "Perform curl analysis",
   "finish",
   "think",
   "look at https://plc.local/ui",
   "see http://192.168.1.100:8080."}

Malformed ==
  {Null,
   Obj(Undefined, Num(1), Num(3), Bool(TRUE), Undefined, Undefined),
   Obj(Str("start http://10.0.0.5/"), Num(0), Num(3), Bool(TRUE), Num(1), Str("b1")),
   Obj(Str("start http://10.0.0.5/"), Undefined, Num(3), Bool(TRUE), Num(1), Str("b1")),
   Obj(Str("finish http://10.0.0.5/"), Num(1), Str("3"), Bool(TRUE), Undefined, Undefined),
   Obj(Str("curl http://10.0.0.5/"), Num(1), Num(3), Undefined, Undefined, Undefined)}

\* a step numbered beyond its own estimate of the total
LateStep(text) == Obj(Str(text), Num(5), Num(3), Bool(TRUE), Undefined, Undefined)

\* a step that branches from step 1 into the branch "b1"
BranchStep(text) == Obj(Str(text), Num(2), Num(3), Bool(TRUE), Num(1), Str("b1"))

Inputs ==
  {Step(t) : t \in StepThoughts}
  \cup {FinalStep("Generate final report")}
  \cup Malformed

Envs == {EnvOk, EnvFail, EnvBare}

MaxSteps == 3
MaxRequests == 1
MaxConsole == 1
MaxMessages == 2
MaxInFlight == 2
MaxRepeats == 1

-----------------------------------------------------------------------------
(* The state machine *)

This ==
  [thoughtHistory |-> thoughtHistory,
   branches |-> branches,
   browser |-> browser,
   page |-> page,
   debugContext |-> debugContext,
   calls |-> <<>>,
   inserted |-> inserted,
   reported |-> reported]

Init ==
  /\ thoughtHistory = InitialMachine.thoughtHistory
  /\ branches = InitialMachine.branches
  /\ browser = InitialMachine.browser
  /\ page = InitialMachine.page
  /\ debugContext = InitialMachine.debugContext
  /\ request = [op |-> "none"]
  /\ response = [outcome |-> "none", isError |-> FALSE, body |-> [status |-> "none"]]
  /\ calls = InitialMachine.calls
  /\ inserted = InitialMachine.inserted
  /\ reported = InitialMachine.reported
  /\ suspended = <<>>
  /\ answered = {}

Becomes(m) ==
  /\ thoughtHistory' = m.thoughtHistory
  /\ branches' = m.branches
  /\ browser' = m.browser
  /\ page' = m.page
  /\ debugContext' = m.debugContext
  /\ calls' = m.calls
  /\ inserted' = m.inserted
  /\ reported' = m.reported

\* the branch b of the dispatch chain awaits a collaborator in the state the
\* session is in
Consults(b) ==
  CASE b = "step1" -> browser = "null" \/ page = "null"
    [] b \in {"step2", "step3", "step4"} -> page # "null"
    [] b = "step7" -> TRUE
    [] b = "close" -> browser # "null" \/ page # "null"
    [] OTHER -> FALSE

\* the answers that can make a difference to the step: the collaborators are
\* consulted on the branches that await them only, and the launch and the
\* teardown meet the same answers in EnvOk and EnvBare
EnvsFor(input, envs) ==
  IF /\ input.t = "object"
     /\ input.thought.t = "string"
     /\ input.thought.v \in Thoughts
     /\ Consults(BranchTable[input.thought.v])
  THEN IF BranchTable[input.thought.v] \in {"step1", "close"}
       THEN {e \in envs : e # EnvBare \/ EnvOk \notin envs}
       ELSE envs
  ELSE {EnvOk}

\* the call settles: the fields are as the method left them and the tool
\* answers what it returned
Settles(r) ==
  /\ Becomes(r.m)
  /\ response' = r.response

\* how many issues and rules have been pushed so far
Pushed == [issues |-> Len(debugContext.issues), rules |-> Len(inserted)]

\* one call of the tool: server.setRequestHandler(CallToolRequestSchema, ...)
Submit(input, env) ==
  /\ Len(thoughtHistory) < MaxSteps
  /\ Settles(processLegacyDeviceDebug(This, input, env))
  /\ request' = [op |-> "submit", input |-> input, env |-> env,
                 before |-> Pushed]
  /\ UNCHANGED <<suspended, answered>>

\* the caller submits the last step once more, the collaborators answer as
\* they did
Resubmits ==
  /\ request.op = "submit"
  /\ Len(thoughtHistory) < MaxSteps + MaxRepeats
  /\ Settles(processLegacyDeviceDebug(This, request.input, request.env))
  /\ request' = [request EXCEPT !.before = Pushed]
  /\ UNCHANGED <<suspended, answered>>

\* the page emits a request event
RequestEvent(url) ==
  /\ page = "navigated"
  /\ Len(debugContext.networkRequests) < MaxRequests
  /\ Becomes(onRequest([This EXCEPT !.calls = calls], url, "GET"))
  /\ request' = [op |-> "request", url |-> url]
  /\ UNCHANGED <<response, suspended, answered>>

\* the recorded requests to url that have no response yet
Unanswered(reqs, url) ==
  {i \in 1..Len(reqs) : reqs[i].url = url /\ "status" \notin DOMAIN reqs[i]}

\* the page emits the response event of a request that has none yet
ResponseEvent(url, status, headers) ==
  /\ page = "navigated"
  /\ Unanswered(debugContext.networkRequests, url) # {}
  /\ Becomes(onResponse([This EXCEPT !.calls = calls], url, status, headers))
  /\ request' = [op |-> "response", url |-> url]
  /\ UNCHANGED <<response, suspended, answered>>

\* the page emits a request event, one of up to MaxInFlight
PageRequest(url) ==
  /\ page = "navigated"
  /\ Len(debugContext.networkRequests) < MaxInFlight
  /\ Becomes(onRequest([This EXCEPT !.calls = calls], url, "GET"))
  /\ request' = [op |-> "request", url |-> url]
  /\ UNCHANGED <<response, suspended, answered>>

\* the page emits the response event of the i-th recorded request, once
ResponseOf(i, status, headers) ==
  /\ page = "navigated"
  /\ i \in 1..Len(debugContext.networkRequests)
  /\ i \notin answered
  /\ Becomes(onResponse([This EXCEPT !.calls = calls],
                        debugContext.networkRequests[i].url, status, headers))
  /\ answered' = answered \cup {i}
  /\ request' = [op |-> "response", url |-> debugContext.networkRequests[i].url,
                 of |-> i, status |-> status]
  /\ UNCHANGED <<response, suspended>>

\* the page emits a console event, one of a burst of up to MaxMessages
ConsoleMessage(type, text) ==
  /\ page = "navigated"
  /\ Len(debugContext.consoleErrors) < MaxMessages
  /\ Becomes(onConsole([This EXCEPT !.calls = calls], type, text))
  /\ request' = [op |-> "console", text |-> text]
  /\ UNCHANGED <<response, suspended, answered>>

\* the page emits a console event
ConsoleEvent(type, text) ==
  /\ page = "navigated"
  /\ Len(debugContext.consoleErrors) < MaxConsole
  /\ Becomes(onConsole([This EXCEPT !.calls = calls], type, text))
  /\ request' = [op |-> "console", text |-> text]
  /\ UNCHANGED <<response, suspended, answered>>

Next == \E input \in Inputs : \E env \in EnvsFor(input, Envs) : Submit(input, env)

Spec == Init /\ [][Next]_vars

\* a session with page events, on the phases that feed the report: the target
\* is named and the defaults enabled, the page is loaded (a terminal step),
\* the WebSocket phase runs
SessionInputs ==
  {Step("start debugging http://192.168.1.100:8080"),
   FinalStep("start debugging http://192.168.1.100:8080"),
   FinalStep("Check page loading"),
   Step("Check WebSocket, then curl")}

SessionEnvs == {EnvOk, EnvBare}

SessionNext ==
  \/ \E input \in SessionInputs :
       \E env \in EnvsFor(input, SessionEnvs) : Submit(input, env)
  \/ RequestEvent("http://192.168.1.100:8080/static/app.js")
  \/ ResponseEvent("http://192.168.1.100:8080/static/app.js", 404, NoHeaders)
  \/ ConsoleEvent("error", "Bootstrap.js: Mixed Content https")

SessionSpec == Init /\ [][SessionNext]_vars

\* a session on the life of the page inspector and on failures: the target is
\* named (by a token that parses and by one that does not), the browser is
\* launched and torn down, the phases that await a collaborator run, with
\* collaborators that answer and collaborators that fail
LifecycleInputs ==
  {Step("start debugging http://192.168.1.100:8080"),
   Step("start debugging http://192.168.1.100:8080."),
   BranchStep("start debugging http://192.168.1.100:8080"),
   Step("finish"),
   Step("Finish and generate final report"),
   Step("Check page loading"),
   Step("Analyze images and links"),
   Step("Check WebSocket, then curl"),
   Step("Perform curl analysis"),
   LateStep("think"),
   Null}

LifecycleNext ==
  \E input \in LifecycleInputs : \E env \in EnvsFor(input, Envs) : Submit(input, env)

LifecycleSpec == Init /\ [][LifecycleNext]_vars

\* a session whose caller does not wait for the answer of a step before it
\* submits the next: nothing in the handler (lines 1172-1184) or in
\* processLegacyDeviceDebug holds a second call back while a first waits at
\* an await. The calls of phase 7 are taken in their two parts, up to the
\* await of fetch (lines 845-897, 703-708) and from there (708-832, 899-944).
MaxSuspended == 1

AsyncInputs ==
  {Step("start debugging http://192.168.1.100:8080"),
   Step("Check redirects"),
   Step("Perform curl analysis"),
   FinalStep("Generate final report")}

\* lines 848-870 on a step that passes validation: the target discovered and
\* the step ledgered
Ledgered(m, input) ==
  Ledger(DiscoverTarget(m, input.thought.v).m, validateThoughtData(input).value)

\* lines 845-897 and 703-708 on a step of phase 7: the fields when the call
\* reaches its await
Begun(m, input) ==
  step7_Awaits(Called(Ledgered(m, input).r.m, "step7_PerformCurlAnalysis"))

\* a call of phase 7 runs up to its await: the input is validated, the target
\* discovered, the step ledgered, the phase label set
Begins(input) ==
  /\ Len(thoughtHistory) < MaxSteps
  /\ Len(suspended) < MaxSuspended
  /\ ~validateThoughtData(input).threw
  /\ BranchFor(input.thought.v) = "step7"
  /\ ~DiscoverTarget(This, input.thought.v).threw
  /\ ~Ledgered(This, input).r.threw
  /\ Becomes(Begun(This, input))
  /\ suspended' =
       Append(suspended,
              [input |-> input,
               v |-> Ledgered(This, input).v,
               m0 |-> This,
               began |-> Begun(This, input)])
  /\ request' = [op |-> "begin", input |-> input]
  /\ UNCHANGED <<response, answered>>

\* the sequence without its i-th entry
Without(seq, i) == SubSeq(seq, 1, i - 1) \o SubSeq(seq, i + 1, Len(seq))

\* the fields of the object are those of m
FieldsAre(m) ==
  /\ thoughtHistory = m.thoughtHistory
  /\ branches = m.branches
  /\ browser = m.browser
  /\ page = m.page
  /\ debugContext = m.debugContext

\* the fetch of the i-th suspended call settles with the answer of env: the
\* rest of phase 7 runs on the fields as they are now and the call answers
Resumes(i, env) ==
  /\ i \in 1..Len(suspended)
  /\ Settles(Respond(step7_Settles([This EXCEPT !.calls = calls], env),
                     suspended[i].v))
  /\ suspended' = Without(suspended, i)
  /\ request' = [op |-> "resume", input |-> suspended[i].input, env |-> env,
                 undisturbed |-> FieldsAre(suspended[i].began),
                 m0 |-> suspended[i].m0]
  /\ UNCHANGED answered

AsyncNext ==
  \/ \E input \in AsyncInputs :
       \E env \in EnvsFor(input, Envs) : Submit(input, env)
  \/ \E input \in AsyncInputs : Begins(input)
  \/ \E i \in 1..MaxSuspended : \E env \in Envs : Resumes(i, env)

AsyncSpec == Init /\ [][AsyncNext]_vars

\* a session on what the context keeps: the browser is launched, the page
\* navigated, the page emits a request, its redirect response and a console
\* message, the phases 3 and 5 run and run again (on a page that is bare on
\* one visit and not on another), the session is torn down
ContextInputs ==
  {Step("start debugging http://192.168.1.100:8080"),
   Step("Check page loading"),
   Step("Analyze images and links"),
   Step("Check redirects"),
   Step("finish")}

ContextNext ==
  \/ \E input \in ContextInputs :
       \E env \in EnvsFor(input, SessionEnvs) : Submit(input, env)
  \/ RequestEvent("http://192.168.1.100:8080/status")
  \/ ResponseEvent("http://192.168.1.100:8080/status", 302, NoHeaders)
  \/ ConsoleEvent("error", "Bootstrap.js: Mixed Content https")

ContextSpec == Init /\ [][ContextNext]_vars

\* a session on the network observations phase 6 reads: the browser is
\* launched, the page navigated, the page requests a static file of the
\* device, a page of the device and a static file of another host, the
\* requests fail or are redirected, phase 6 runs
ObservationInputs ==
  {Step("start debugging http://192.168.1.100:8080"),
   Step("Check page loading"),
   Step("Check network and console errors")}

ObservedUrls ==
  {"http://192.168.1.100:8080/static/app.js",
   "http://192.168.1.100:8080/status",
   "http://cdn.example.com/static/lib.js"}

ObservedStatuses == {302, 404}

ObservationNext ==
  \/ \E input \in ObservationInputs :
       \E env \in EnvsFor(input, {EnvOk}) : Submit(input, env)
  \/ \E url \in ObservedUrls : RequestEvent(url)
  \/ \E url \in ObservedUrls : \E status \in ObservedStatuses :
       ResponseEvent(url, status, NoHeaders)
  \/ ConsoleEvent("error", "Bootstrap.js: Mixed Content https")

ObservationSpec == Init /\ [][ObservationNext]_vars

\* a session on the console observations phase 6 reads: the browser is
\* launched, the page navigated, the page logs the bootstrap.js error and a
\* MIME type error, once or several times, phase 6 runs
ConsoleInputs ==
  {Step("start debugging http://192.168.1.100:8080"),
   Step("Check page loading"),
   Step("Check network and console errors")}

ConsoleTexts ==
  {"Bootstrap.js: Mixed Content https",
   "Refused to execute script: MIME type mismatch"}

ConsoleNext ==
  \/ \E input \in ConsoleInputs :
       \E env \in EnvsFor(input, {EnvOk}) : Submit(input, env)
  \/ \E text \in ConsoleTexts : ConsoleMessage("error", text)

ConsoleSpec == Init /\ [][ConsoleNext]_vars

\* the trigger phrases of the tool description, the placeholder of the first
\* filled in with a device URL
TriggerPhrases ==
  <<"Start debugging for http://192.168.1.100:8080",
    "Check page loading",
    "Analyze images and links",
    "Check WebSocket",
    "Check redirects",
    "Check network and console errors",
    "Perform curl analysis",
    "Generate final report">>

\* a session of steps whose texts are the trigger phrases, the last of a
\* session or not
TriggerInputs ==
  {Step(TriggerPhrases[i]) : i \in 1..8} \cup {FinalStep(TriggerPhrases[i]) : i \in 1..8}

TriggerNext ==
  \E input \in TriggerInputs :
    \E env \in EnvsFor(input, SessionEnvs) : Submit(input, env)

TriggerSpec == Init /\ [][TriggerNext]_vars

\* the answers of page.goto: a response of status 200, 400 or 500, no
\* response, a rejection
Gotos ==
  {[error |-> "", hasResponse |-> TRUE, status |-> st] : st \in {200, 400, 500}}
    \cup {[error |-> "", hasResponse |-> FALSE, status |-> 0],
          [error |-> "page.goto: Timeout 30000ms exceeded",
           hasResponse |-> FALSE, status |-> 0]}

\* the answers of page.evaluate in phase 2: no body, a body of 99 or of 100
\* characters, a page with or without login form, a rejection
PageContents ==
  {[error |-> "", hasBody |-> FALSE, bodyLength |-> 0,
    hasLoginForm |-> FALSE, hasTryAgainMessage |-> FALSE],
   [error |-> "", hasBody |-> TRUE, bodyLength |-> 99,
    hasLoginForm |-> TRUE, hasTryAgainMessage |-> FALSE],
   [error |-> "", hasBody |-> TRUE, bodyLength |-> 100,
    hasLoginForm |-> FALSE, hasTryAgainMessage |-> FALSE],
   [error |-> "", hasBody |-> TRUE, bodyLength |-> 100,
    hasLoginForm |-> TRUE, hasTryAgainMessage |-> TRUE],
   [error |-> "page.evaluate: Execution context was destroyed",
    hasBody |-> TRUE, bodyLength |-> 2048,
    hasLoginForm |-> TRUE, hasTryAgainMessage |-> FALSE]}

PageEnvs ==
  {[EnvOk EXCEPT !.goto = g, !.pageContent = c] : g \in Gotos, c \in PageContents}

\* a session on the page load: the browser is launched on a target, or not,
\* and phase 2 runs on every answer of the page
PageNext ==
  \/ Submit(Step("start debugging http://192.168.1.100:8080"), EnvOk)
  \/ \E env \in EnvsFor(Step("Check page loading"), PageEnvs) :
       Submit(Step("Check page loading"), env)

PageSpec == Init /\ [][PageNext]_vars

\* the headers of a HEAD response: a header is absent ("") or has a value
HeadersOf(location, server, setCookie) ==
  LET value == [k \in {"location", "server", "set-cookie"} |->
                  CASE k = "location" -> location
                    [] k = "server" -> server
                    [] OTHER -> setCookie]
  IN [k \in {n \in DOMAIN value : value[n] # ""} |-> value[k]]

\* the HEAD responses of the prober: with or without a Location on the
\* device, with or without a Server naming a host check, without cookie,
\* with a cookie of the device's domain, with a cookie whose text is a URL
\* of the device
CurlEnvs ==
  {[EnvOk EXCEPT !.fetch.headers = HeadersOf(location, server, setCookie)] :
     location \in {"", "http://192.168.1.100:8443/login"},
     server \in {"", "hostname checked against Host"},
     setCookie \in {"", "sid=1; domain=192.168.1.100",
                    "http://192.168.1.100:8080/?domain=x"}}
    \cup {[EnvOk EXCEPT !.fetch.error = "fetch failed"]}

\* a session on the header probe: a target is set, or not, and phase 7 runs
\* on every answer of the prober
CurlNext ==
  \/ Submit(Step("start debugging http://192.168.1.100:8080"), EnvOk)
  \/ \E env \in CurlEnvs : Submit(Step("Perform curl analysis"), env)

CurlSpec == Init /\ [][CurlNext]_vars

\* a session on the prerequisites of the phases 2, 3 and 4: the browser is
\* launched with a target or without, or not at all, or is closed again,
\* and the phases run on every answer of the page
PrerequisiteInputs ==
  {Step("start"),
   Step("start debugging http://192.168.1.100:8080"),
   Step("Check page loading"),
   Step("Analyze images and links"),
   Step("Check WebSocket"),
   Step("finish")}

PrerequisiteNext ==
  \E input \in PrerequisiteInputs :
    \E env \in EnvsFor(input, Envs) : Submit(input, env)

PrerequisiteSpec == Init /\ [][PrerequisiteNext]_vars

\* a caller asks whether url targets the device of the session
Classifies(url) ==
  /\ request' = [op |-> "classify", url |-> url]
  /\ response' = [isError |-> FALSE,
                  targetsDevice |-> isDeviceIPOrHostname(This, url)]
  /\ UNCHANGED <<thoughtHistory, branches, browser, page, debugContext,
                 calls, inserted, reported, suspended, answered>>

\* the URLs classified: of the device, of a named host, of another host, of
\* private networks and of the neighbouring public range, and a relative one
ClassifiedUrls ==
  {"http://192.168.1.100:8080/status", "https://plc.local/ui",
   "http://cdn.example.com/a.png", "http://10.0.0.5/",
   "http://172.16.0.1/", "http://172.32.0.1/", "http://127.0.0.1:3000/",
   "/static/app.js"}

\* the steps that set the target: none, a private address, a named host, a
\* token that does not parse
ClassifyInputs ==
  {Step("think"),
   Step("start debugging http://192.168.1.100:8080"),
   Step("look at https://plc.local/ui"),
   Step("see http://192.168.1.100:8080.")}

ClassifyNext ==
  \/ \E input \in ClassifyInputs :
       \E env \in EnvsFor(input, {EnvOk}) : Submit(input, env)
  \/ \E url \in ClassifiedUrls : Classifies(url)

ClassifySpec == Init /\ [][ClassifyNext]_vars

\* a session on the responses of the page: the browser is launched, the
\* page navigated, the page requests a page and a script of the device,
\* once or twice, and the responses arrive in any order
ResponseInputs ==
  {Step("start debugging http://192.168.1.100:8080"),
   Step("Check page loading")}

ResponseNext ==
  \/ \E input \in ResponseInputs :
       \E env \in EnvsFor(input, {EnvOk}) : Submit(input, env)
  \/ \E url \in {"http://192.168.1.100:8080/status",
                  "http://192.168.1.100:8080/static/app.js"} : PageRequest(url)
  \/ \E i \in 1..MaxInFlight : \E status \in {200, 404} :
       ResponseOf(i, status, NoHeaders)

ResponseSpec == Init /\ [][ResponseNext]_vars

\* a step of the given number that branches from step 1 under the given
\* identifier
BranchOf1(number, id) ==
  Obj(Str("think"), Num(number), Num(3), Bool(TRUE), Num(1), id)

\* a session of plain steps and of steps on two branches, on a branch named
\* like a property every object inherits, on a branch with a number for
\* name, and with a marker whose origin is 0
BranchInputs ==
  {Step("think"),
   BranchOf1(2, Str("b1")),
   BranchOf1(3, Str("b2")),
   BranchOf1(2, Str("constructor")),
   BranchOf1(2, Num(7)),
   Obj(Str("think"), Num(2), Num(3), Bool(TRUE), Num(0), Str("b1"))}

BranchNext == \E input \in BranchInputs : Submit(input, EnvOk)

BranchSpec == Init /\ [][BranchNext]_vars

\* a session in which phases run again: the browser is launched, the page
\* navigated, the page is redirected and logs an error, a phase runs and
\* the same step is submitted once more
RepeatInputs ==
  {Step("start debugging http://192.168.1.100:8080"),
   Step("Check page loading"),
   Step("Analyze images and links"),
   Step("Check WebSocket"),
   Step("Check redirects"),
   Step("Check network and console errors"),
   Step("Perform curl analysis")}

\* the page answers the navigation with status 400
RepeatEnvs(input) ==
  IF input = Step("Check page loading") THEN {EnvBare} ELSE {EnvOk}

RepeatNext ==
  \/ \E input \in RepeatInputs :
       \E env \in EnvsFor(input, RepeatEnvs(input)) : Submit(input, env)
  \/ Resubmits
  \/ RequestEvent("http://192.168.1.100:8080/status")
  \/ ResponseEvent("http://192.168.1.100:8080/status", 302,
                   HeadersOf("http://192.168.1.100:8443/login", "", ""))
  \/ ConsoleEvent("error", "Bootstrap.js: Mixed Content https")

RepeatSpec == Init /\ [][RepeatNext]_vars

\* steps on either side of what the input schema declares: an empty or a
\* non-empty text, a step number and an estimate of the total below 1, at 1
\* and above
SchemaInputs ==
  {Obj(Str(text), Num(number), Num(total), Bool(TRUE), Undefined, Undefined) :
     text \in {"", "think"}, number \in {-1, 0, 1, 2}, total \in {-1, 0, 3}}

SchemaNext == \E input \in SchemaInputs : Submit(input, EnvOk)

SchemaSpec == Init /\ [][SchemaNext]_vars

\* a session whose caller submits a start step while another waits inside
\* initBrowser: nothing in the handler (lines 1172-1176) holds the second
\* call back.  A call is taken in the parts its awaits cut it into: the
\* launch (line 191), the context (197), the page (201), the return of
\* initBrowser (874) and the return of phase 1 (875).  Each call in flight
\* is kept with where it waits (at), the fields it began on (m0) and the
\* collaborator calls it made (calls).
MaxStarts == 2

StartInputs ==
  {Step("start debugging http://192.168.1.100:8080"), Step("start")}

StartEnvs == {EnvOk, EnvFail}

\* lines 196-197: the browser is there; initBrowser up to its next await
initBrowser_Launched(m) ==
  IF m.page = "null"
  THEN [m |-> Called(m, "browser.newContext"), at |-> "newContext"]
  ELSE [m |-> m, at |-> "initBrowser"]

\* lines 190-191: initBrowser from its entry up to its first await
initBrowser_Enters(m) ==
  IF m.browser = "null"
  THEN [m |-> Called(m, "chromium.launch"), at |-> "launch"]
  ELSE initBrowser_Launched(m)

\* lines 845-874 and 189-197 on a start step: the fields when the call
\* reaches its first await
Started(m, input) ==
  initBrowser_Enters(Called(Ledgered(m, input).r.m, "initBrowser"))

\* the phase 1 of a call, had the flag been read when initBrowser was
\* entered and not when it has returned
Step1In_CheckedAtEntry(call, m) ==
  IF call.m0.debugContext.defaultRulesEnabled THEN Done(m)
  ELSE step1_Unguarded(Called(m, "step1_EnableDefaultRules"))

\* line 875 in a call: phase 1 runs on the fields as they are when
\* initBrowser has returned to the call
Step1In(call, m) == AfterInitBrowser(Done(m))

\* the i-th call in flight waits at the await at
Waits(i, at) ==
  /\ i \in 1..Len(suspended)
  /\ "at" \in DOMAIN suspended[i]
  /\ suspended[i].at = at

\* the fields as the i-th call finds them when it goes on
Running(i) == [This EXCEPT !.calls = suspended[i].calls]

\* the i-th call runs up to its next await
Moves(i, e) ==
  /\ Becomes(e.m)
  /\ suspended' = [suspended EXCEPT ![i].at = e.at, ![i].calls = e.m.calls]
  /\ UNCHANGED response

\* the await of the i-th call throws: the catch clause answers
Fails(i, error) ==
  /\ Settles(Caught(Running(i), error))
  /\ suspended' = Without(suspended, i)

\* a start step runs up to its first await
Starts(input) ==
  /\ Len(thoughtHistory) < MaxSteps
  /\ Len(suspended) < MaxStarts
  /\ ~validateThoughtData(input).threw
  /\ BranchFor(input.thought.v) = "step1"
  /\ ~DiscoverTarget(This, input.thought.v).threw
  /\ ~Ledgered(This, input).r.threw
  /\ Becomes(Started(This, input).m)
  /\ suspended' =
       Append(suspended,
              [input |-> input,
               v |-> Ledgered(This, input).v,
               m0 |-> This,
               at |-> Started(This, input).at,
               calls |-> Started(This, input).m.calls])
  /\ request' = [op |-> "start", input |-> input]
  /\ UNCHANGED <<response, answered>>

\* line 191: chromium.launch settles for the i-th call, which assigns
\* this.browser and goes on to line 196
LaunchSettles(i, env) ==
  /\ Waits(i, "launch")
  /\ IF env.launch # "" THEN Fails(i, env.launch)
     ELSE Moves(i, initBrowser_Launched([Running(i) EXCEPT !.browser = "open"]))
  /\ request' = [op |-> "launch", env |-> env, over |-> browser]
  /\ UNCHANGED answered

\* line 197: browser.newContext settles for the i-th call, which goes on to
\* line 201
ContextSettles(i, env) ==
  /\ Waits(i, "newContext")
  /\ IF env.newContext # "" THEN Fails(i, env.newContext)
     ELSE Moves(i, [m |-> Called(Running(i), "context.newPage"), at |-> "newPage"])
  /\ request' = [op |-> "newContext", env |-> env]
  /\ UNCHANGED answered

\* lines 201-240: context.newPage settles for the i-th call, which assigns
\* this.page, registers the three handlers on it and returns
PageSettles(i, env) ==
  /\ Waits(i, "newPage")
  /\ IF env.newPage # "" THEN Fails(i, env.newPage)
     ELSE Moves(i, [m |-> [Running(i) EXCEPT !.page = "blank"], at |-> "initBrowser"])
  /\ request' = [op |-> "newPage", env |-> env, over |-> page]
  /\ UNCHANGED answered

\* lines 874-875: initBrowser has returned to the i-th call, which runs
\* phase 1
InitBrowserReturns(i) ==
  /\ Waits(i, "initBrowser")
  /\ Moves(i, [m |-> Step1In(suspended[i], Running(i)).m, at |-> "step1"])
  /\ request' = [op |-> "step1", before |-> Pushed]
  /\ UNCHANGED answered

\* lines 899-932: phase 1 has returned to the i-th call, which answers
Answers(i) ==
  /\ Waits(i, "step1")
  /\ Settles(Respond(Running(i), suspended[i].v))
  /\ suspended' = Without(suspended, i)
  /\ request' = [op |-> "answer", input |-> suspended[i].input]
  /\ UNCHANGED answered

StartNext ==
  \/ \E input \in StartInputs : Starts(input)
  \/ \E i \in 1..MaxStarts : \E env \in StartEnvs : LaunchSettles(i, env)
  \/ \E i \in 1..MaxStarts : \E env \in StartEnvs : ContextSettles(i, env)
  \/ \E i \in 1..MaxStarts : \E env \in StartEnvs : PageSettles(i, env)
  \/ \E i \in 1..MaxStarts : InitBrowserReturns(i)
  \/ \E i \in 1..MaxStarts : Answers(i)

StartSpec == Init /\ [][StartNext]_vars

\* a session on the target the observations are classified against: the
\* browser is launched with or without a target, steps name a first and a
\* second URL, one of which does not parse, the page is navigated and
\* requests the device, another private address and other hosts
TargetInputs ==
  {Step("start"),
   Step("start debugging http://192.168.1.100:8080"),
   Step("look at https://plc.local/ui"),
   Step("see http://192.168.1.100:8080."),
   Step("Check page loading")}

TargetRequests ==
  {"http://192.168.1.100:8080/status", "https://plc.local/ui",
   "http://10.0.0.5/", "http://cdn.example.com/a.png"}

TargetNext ==
  \/ \E input \in TargetInputs :
       \E env \in EnvsFor(input, {EnvOk}) : Submit(input, env)
  \/ \E url \in TargetRequests : PageRequest(url)

TargetSpec == Init /\ [][TargetNext]_vars

\* a session on its last steps: the browser is launched, the page
\* navigated, a step is terminal or not, a finish step or not, and the
\* teardown succeeds or fails
TerminalInputs ==
  {Step("start debugging http://192.168.1.100:8080"),
   Step("Check page loading"),
   Step("think"),
   FinalStep("think"),
   FinalStep("Check page loading"),
   FinalStep("Generate final report"),
   Step("finish"),
   FinalStep("finish")}

TerminalNext ==
  \E input \in TerminalInputs :
    \E env \in EnvsFor(input, Envs) : Submit(input, env)

TerminalSpec == Init /\ [][TerminalNext]_vars

\* a session whose page inspector fails at one call at a time: the launch,
\* the context, the page, the close of the page or the close of the browser
FailingAt(c) == [EnvOk EXCEPT ![c] = EnvFail[c]]

TeardownEnvs ==
  {EnvOk}
  \cup {FailingAt(c) : c \in {"launch", "newContext", "newPage",
                              "pageClose", "browserClose"}}

TeardownInputs ==
  {Step("start debugging http://192.168.1.100:8080"),
   Step("Check page loading"),
   Step("finish")}

TeardownNext ==
  \E input \in TeardownInputs :
    \E env \in EnvsFor(input, TeardownEnvs) : Submit(input, env)

TeardownSpec == Init /\ [][TeardownNext]_vars

-----------------------------------------------------------------------------
(* Properties *)

\* the input is one validateThoughtData returns a ThoughtData for
PassesValidation(input) == ~validateThoughtData(input).threw

\* the text of a submitted step that passed validation
ThoughtOf(input) == input.thought.v

\* C1: for every step that passes validation, the Thought Ledger is one entry
\* longer after the submission than before it, whatever the step text holds.
C1_LedgerGrowsByOne ==
  [][(request'.op = "submit" /\ PassesValidation(request'.input))
       => Len(thoughtHistory') = Len(thoughtHistory) + 1]_vars

\* a step the validator is to refuse: thought missing or not a string,
\* thoughtNumber or totalThoughts missing or not a number, nextThoughtNeeded
\* not a boolean (a missing property reads as undefined)
MalformedStep(x) ==
  \/ x.t # "object"
  \/ x.thought.t # "string"
  \/ x.thoughtNumber.t # "number"
  \/ x.totalThoughts.t # "number"
  \/ x.nextThoughtNeeded.t # "boolean"

\* C2: a malformed step is answered with isError = true and leaves the ledger,
\* the branches, the Diagnostic Context (target, issues, rules) and the
\* page-inspector session as they were.
C2_RejectedStepChangesNothing ==
  [][(request'.op = "submit" /\ MalformedStep(request'.input))
       => /\ response'.isError
          /\ UNCHANGED <<thoughtHistory, branches, debugContext, browser, page,
                         inserted>>]_vars

\* a malformed step that carries a URL token and a phase keyword has been
\* refused in a session that has no target, after an accepted step
C2_RejectedWithUrlAndKeyword ==
  /\ request.op = "submit"
  /\ MalformedStep(request.input)
  /\ request.input.t = "object"
  /\ request.input.thought.t = "string"
  /\ UrlMatchOf(ThoughtOf(request.input)) # ""
  /\ BranchFor(ThoughtOf(request.input)) # "none"
  /\ response.isError
  /\ Len(thoughtHistory) > 0
  /\ debugContext.deviceUrl = ""

\* C3: every submission returns a structured response, never a rejection, and
\* a failure response has isError = true and a body with the error message
\* and status "failed".
C3_AlwaysStructuredResponse ==
  /\ response.outcome # "rejected"
  /\ request.op = "submit" => response.outcome = "returned"
  /\ ("error" \in DOMAIN response.body \/ response.isError)
       => /\ response.isError
          /\ DOMAIN response.body = {"error", "status"}
          /\ response.body.error # ""
          /\ response.body.status = "failed"

\* the launch of the browser has failed during a start step
C3_LaunchFailureReported ==
  /\ request.op = "submit"
  /\ response.isError
  /\ calls # <<>>
  /\ calls[Len(calls)] = "chromium.launch"
  /\ response.body.status = "failed"

\* C4: the first step that passes validation and holds an http(s):// token
\* sets deviceUrl to that token, and once deviceUrl is non-empty no step
\* changes deviceUrl, deviceIP or deviceHostname.
C4_TargetSetOnceFromFirstToken ==
  [][/\ debugContext.deviceUrl # ""
        => /\ debugContext'.deviceUrl = debugContext.deviceUrl
           /\ debugContext'.deviceIP = debugContext.deviceIP
           /\ debugContext'.deviceHostname = debugContext.deviceHostname
     /\ (/\ debugContext.deviceUrl = ""
         /\ request'.op = "submit"
         /\ PassesValidation(request'.input))
        => debugContext'.deviceUrl = UrlMatch(ThoughtOf(request'.input))
     /\ debugContext'.deviceUrl # debugContext.deviceUrl
        => /\ request'.op = "submit"
           /\ PassesValidation(request'.input)]_vars

\* a later accepted step names another URL than the target
C4_LaterStepNamesAnotherUrl ==
  /\ request.op = "submit"
  /\ PassesValidation(request.input)
  /\ Len(thoughtHistory) >= 2
  /\ UrlMatchOf(ThoughtOf(request.input)) # ""
  /\ debugContext.deviceUrl # ""
  /\ UrlMatchOf(ThoughtOf(request.input)) # debugContext.deviceUrl
  /\ debugContext.deviceHostname # ""

\* the trigger keywords of the phases 1..7, in dispatch order
PhaseKeywords ==
  << {"start", "initialize"},
     {"page load", "login page"},
     {"images", "links", "resources"},
     {"websocket", "ws://"},
     {"redirect", "port"},
     {"network", "console", "error"},
     {"curl", "header"} >>

PhaseMethods ==
  << "step1_EnableDefaultRules",
     "step2_AnalyzePageLoading",
     "step3_AnalyzeResources",
     "step4_AnalyzeWebSocket",
     "step5_AnalyzeRedirects",
     "step6_AnalyzeNetworkAndConsole",
     "step7_PerformCurlAnalysis" >>

\* the phases with a trigger keyword in the lower-cased text l
PhasesWithKeywordIn(l) ==
  {p \in 1..7 : \E k \in PhaseKeywords[p] : Includes(l, k)}

MatchingPhasesTable == [t \in Thoughts |-> PhasesWithKeywordIn(toLowerCase(t))]

MatchingPhases(text) ==
  IF text \in Thoughts THEN MatchingPhasesTable[text]
  ELSE PhasesWithKeywordIn(toLowerCase(text))

IsPhaseMethod(name) == \E p \in 1..7 : PhaseMethods[p] = name

\* the phase analyzers the last submission has entered, in order
PhaseCalls == SelectSeq(calls, IsPhaseMethod)

\* C5: an accepted step enters at most one phase analyzer, the first phase in
\* the order 1..7 with a trigger keyword in the lower-cased text; when the
\* step is answered without error and a phase matches, that phase is entered.
C5_OnlyFirstMatchingPhase ==
  (request.op = "submit" /\ PassesValidation(request.input)) =>
    /\ Len(PhaseCalls) <= 1
    /\ \A i \in 1..Len(PhaseCalls) :
         /\ MatchingPhases(ThoughtOf(request.input)) # {}
         /\ PhaseCalls[i] = PhaseMethods[Min(MatchingPhases(ThoughtOf(request.input)))]
    /\ (~response.isError /\ MatchingPhases(ThoughtOf(request.input)) # {})
         => Len(PhaseCalls) = 1

\* a text with "websocket" and "curl" has entered phase 4 and nothing else
C5_WebSocketBeforeCurl ==
  /\ request.op = "submit"
  /\ PassesValidation(request.input)
  /\ Includes(toLowerCase(ThoughtOf(request.input)), "websocket")
  /\ Includes(toLowerCase(ThoughtOf(request.input)), "curl")
  /\ PhaseCalls = <<"step4_AnalyzeWebSocket">>
  /\ ~response.isError

Range(seq) == {seq[i] : i \in 1..Len(seq)}

\* the number of rules of priority p
RulesOfPriority(rules, p) ==
  LET Is(r) == r.priority = p IN SelectSeq(rules, Is)

\* C6: once the defaults are enabled the Rule Catalog holds one rule of each
\* of the priorities 1..4; a start step that enters phase 1 leaves them
\* enabled; and a step that enters phase 1 when they are enabled already
\* pushes no rule and leaves the issue log, the phase label and every other
\* field that is not the target as they were.
C6_DefaultsEnabledOnce ==
  [][/\ debugContext'.defaultRulesEnabled
        => \A p \in 1..4 :
             Len(RulesOfPriority(debugContext'.rewriteRules, p)) = 1
     /\ (request'.op = "submit" /\ "step1_EnableDefaultRules" \in Range(calls'))
        => debugContext'.defaultRulesEnabled
     /\ (/\ request'.op = "submit"
         /\ "step1_EnableDefaultRules" \in Range(calls')
         /\ debugContext.defaultRulesEnabled)
        => /\ inserted' = inserted
           /\ request'.input.nextThoughtNeeded.v
                => debugContext'.rewriteRules = debugContext.rewriteRules
           /\ debugContext'.issues = debugContext.issues
           /\ debugContext'.currentStep = debugContext.currentStep
           /\ debugContext' =
                [debugContext EXCEPT
                   !.deviceUrl = debugContext'.deviceUrl,
                   !.deviceIP = debugContext'.deviceIP,
                   !.deviceHostname = debugContext'.deviceHostname,
                   !.rewriteRules = debugContext'.rewriteRules]]_vars

\* a second start step has entered phase 1 on a page that existed already
C6_SecondStart ==
  /\ request.op = "submit"
  /\ ~response.isError
  /\ Len(thoughtHistory) >= 2
  /\ "step1_EnableDefaultRules" \in Range(calls)
  /\ "context.newPage" \notin Range(calls)
  /\ Len(debugContext.rewriteRules) = 4
  /\ debugContext.currentStep = "Step 1: Enable Default Rules"

\* the last submission was answered with a report
HasReport ==
  /\ request.op = "submit"
  /\ ~response.isError
  /\ "fullReport" \in DOMAIN response.body

RulesOfType(rules, type) ==
  LET Is(r) == r.type = type IN SelectSeq(rules, Is)

NonDecreasing(rules) ==
  \A i \in 1..(Len(rules) - 1) : rules[i].priority <= rules[i + 1].priority

\* sorted is in non-decreasing priority and holds the rules of each priority
\* in the order pushed has them
StablySorted(sorted, pushed) ==
  /\ NonDecreasing(sorted)
  /\ \A r \in Range(sorted) \cup Range(pushed) :
       RulesOfPriority(sorted, r.priority) = RulesOfPriority(pushed, r.priority)

\* C7: in every report the rules of each list are in non-decreasing priority
\* and rules of equal priority are in the order they were pushed in, also
\* when an earlier report has sorted the catalog and phases have pushed since.
C7_ReportSortIsStable ==
  HasReport =>
    /\ StablySorted(response.body.fullReport.rewriteRulesForRAPortal.defaultRules,
                    RulesOfType(inserted, "default"))
    /\ StablySorted(response.body.fullReport.rewriteRulesForRAPortal.headerRewrites,
                    RulesOfType(inserted, "header"))
    /\ StablySorted(response.body.fullReport.rewriteRulesForRAPortal.bodyRewrites,
                    RulesOfType(inserted, "body"))
    /\ StablySorted(debugContext.rewriteRules, inserted)

\* a report made after an earlier report, with distinct rules of one priority
\* and rules pushed behind rules of a greater priority
C7_SecondReportWithTies ==
  /\ HasReport
  /\ \E i \in 1..(Len(thoughtHistory) - 1) : ~thoughtHistory[i].nextThoughtNeeded
  /\ \E i, j \in 1..Len(inserted) :
       /\ i < j
       /\ inserted[i].priority = inserted[j].priority
       /\ inserted[i] # inserted[j]
  /\ debugContext.rewriteRules # inserted

Occurrences(seq, x) ==
  LET Is(y) == y = x IN Len(SelectSeq(seq, Is))

\* C8: in a report, totalRules is the length of the Rule Catalog, no rule is
\* in two of defaultRules, headerRewrites and bodyRewrites, and the three
\* lists together hold every catalog rule as many times as the catalog does.
C8_PartitionsExactAndDisjoint ==
  HasReport =>
    LET p == response.body.fullReport.rewriteRulesForRAPortal
        all == p.defaultRules \o p.headerRewrites \o p.bodyRewrites
    IN /\ p.totalRules = Len(debugContext.rewriteRules)
       /\ Range(p.defaultRules) \cap Range(p.headerRewrites) = {}
       /\ Range(p.defaultRules) \cap Range(p.bodyRewrites) = {}
       /\ Range(p.headerRewrites) \cap Range(p.bodyRewrites) = {}
       /\ Len(all) = Len(debugContext.rewriteRules)
       /\ \A r \in Range(debugContext.rewriteRules) \cup Range(all) :
            Occurrences(all, r) = Occurrences(debugContext.rewriteRules, r)

\* a report with rules in each of the three lists
C8_ReportWithAllThreeLists ==
  /\ HasReport
  /\ response.body.fullReport.rewriteRulesForRAPortal.defaultRules # <<>>
  /\ response.body.fullReport.rewriteRulesForRAPortal.headerRewrites # <<>>
  /\ response.body.fullReport.rewriteRulesForRAPortal.bodyRewrites # <<>>

SummaryKeys ==
  {"thoughtNumber", "totalThoughts", "nextThoughtNeeded", "currentStep",
   "deviceUrl", "pageLoadStatus", "issuesFound", "rewriteRules",
   "networkRequests", "consoleErrors", "brokenImages", "brokenLinks",
   "redirects"}

\* C9: a response without error carries fullReport exactly when the step has
\* nextThoughtNeeded = false; its other properties are the summary, whose
\* counts are the lengths of the context lists after the step.
C9_ReportIffTerminal ==
  (request.op = "submit" /\ ~response.isError) =>
    /\ "fullReport" \in DOMAIN response.body
         <=> request.input.nextThoughtNeeded = Bool(FALSE)
    /\ DOMAIN response.body \ {"fullReport"} = SummaryKeys
    /\ response.body.issuesFound = Len(debugContext.issues)
    /\ response.body.rewriteRules = Len(debugContext.rewriteRules)
    /\ response.body.networkRequests = Len(debugContext.networkRequests)
    /\ response.body.consoleErrors = Len(debugContext.consoleErrors)
    /\ response.body.brokenImages = Len(debugContext.brokenImages)
    /\ response.body.brokenLinks = Len(debugContext.brokenLinks)
    /\ response.body.redirects = Len(debugContext.redirects)

\* a counts-only summary of a session that has recorded a request, a console
\* error and rules
C9_SummaryWithCounts ==
  /\ request.op = "submit"
  /\ ~response.isError
  /\ "fullReport" \notin DOMAIN response.body
  /\ response.body.networkRequests > 0
  /\ response.body.consoleErrors > 0
  /\ response.body.rewriteRules > 0

\* C10: when a report has been built, every field of the Diagnostic Context,
\* the order of the stored Rule Catalog included, is as it was when the
\* building began.
C10_ReportLeavesContextUnchanged ==
  HasReport => debugContext = reported

Max(a, b) == IF a >= b THEN a ELSE b

\* the entry the last submission appended to the ledger
LastThought(history) == history[Len(history)]

\* C11: a ledgered step stores its thoughtNumber and, as totalThoughts, the
\* greater of its thoughtNumber and its totalThoughts; a response without
\* error echoes the stored total; and no submission changes an entry the
\* ledger holds already, so a later smaller total lowers no stored total.
C11_TotalRaisedNeverLowered ==
  [][/\ Len(thoughtHistory') >= Len(thoughtHistory)
     /\ SubSeq(thoughtHistory', 1, Len(thoughtHistory)) = thoughtHistory
     /\ (request'.op = "submit" /\ Len(thoughtHistory') = Len(thoughtHistory) + 1)
        => /\ PassesValidation(request'.input)
           /\ LastThought(thoughtHistory').thoughtNumber
                = request'.input.thoughtNumber.v
           /\ LastThought(thoughtHistory').totalThoughts
                = Max(request'.input.thoughtNumber.v, request'.input.totalThoughts.v)
           /\ ~response'.isError
                => response'.body.totalThoughts
                     = LastThought(thoughtHistory').totalThoughts]_vars

\* a step numbered 5 of 3 is stored as 5 of 5 and a later step of 3 is
\* stored behind it with its own total
C11_RaisedThenSmaller ==
  /\ request.op = "submit"
  /\ ~response.isError
  /\ Len(thoughtHistory) >= 2
  /\ \E i \in 1..(Len(thoughtHistory) - 1) :
       /\ thoughtHistory[i].thoughtNumber = 5
       /\ thoughtHistory[i].totalThoughts = 5
  /\ LastThought(thoughtHistory).totalThoughts = 3
  /\ response.body.totalThoughts = 3

\* the session is as the constructor left it
FreshSession ==
  /\ thoughtHistory = <<>>
  /\ branches = NoBranches
  /\ debugContext = InitialDebugContext
  /\ browser = "null"
  /\ page = "null"

\* the last call of the submission is a call of the page inspector that
\* initBrowser makes: when it is, that call has failed
InspectorFailed(trace) ==
  /\ trace # <<>>
  /\ trace[Len(trace)] \in {"chromium.launch", "browser.newContext", "context.newPage"}

\* C12: in a fresh session, a first step that passes validation, holds "start"
\* and an http(s):// token, and meets a page inspector that opens, is answered
\* without error with deviceUrl equal to the token and a rewriteRules count
\* of 4.
C12_FirstStartReportsTargetAndDefaults ==
  [][(/\ FreshSession
      /\ request'.op = "submit"
      /\ PassesValidation(request'.input)
      /\ Includes(toLowerCase(ThoughtOf(request'.input)), "start")
      /\ UrlMatchOf(ThoughtOf(request'.input)) # ""
      /\ ~InspectorFailed(calls'))
       => /\ ~response'.isError
          /\ response'.body.deviceUrl = UrlMatchOf(ThoughtOf(request'.input))
          /\ response'.body.rewriteRules = 4]_vars

\* the first start step of a session has been answered with the target and
\* the four defaults
C12_FirstStartAnswered ==
  /\ request.op = "submit"
  /\ Len(thoughtHistory) = 1
  /\ ~response.isError
  /\ Includes(toLowerCase(thoughtHistory[1].thought), "start")
  /\ response.body.deviceUrl = "http://192.168.1.100:8080"
  /\ response.body.rewriteRules = 4

\* the lower-cased text l holds a teardown keyword
FinishKeywordIn(l) == Includes(l, "finish") \/ Includes(l, "complete")

FinishKeywordTable == [t \in Thoughts |-> FinishKeywordIn(toLowerCase(t))]

FinishKeyword(text) ==
  IF text \in Thoughts THEN FinishKeywordTable[text]
  ELSE FinishKeywordIn(toLowerCase(text))

\* the last submission is a step that passed validation with a teardown
\* keyword in its text
FinishSubmitted ==
  /\ request.op = "submit"
  /\ PassesValidation(request.input)
  /\ FinishKeyword(ThoughtOf(request.input))

\* C13 as stated: every step that passes validation with "finish" or
\* "complete" in its text leaves no page and no browser, enters no numbered
\* phase and adds no issue and no rule.
C13_EveryFinishTearsDown ==
  [][FinishSubmitted'
       => /\ page' = "null"
          /\ browser' = "null"
          /\ SelectSeq(calls', IsPhaseMethod) = <<>>
          /\ debugContext'.issues = debugContext.issues
          /\ inserted' = inserted]_vars

\* C13: a ledgered step with "finish" or "complete" and no trigger keyword of
\* the phases 1..7 in its text enters closeBrowser and no numbered phase and
\* adds no issue and no rule; answered without error it leaves no page and no
\* browser, and it is answered with an error only when page.close or
\* browser.close has failed. A step that holds a phase keyword as well does
\* not enter closeBrowser.
C13_FinishWithoutPhaseKeywordTearsDown ==
  [][/\ (/\ FinishSubmitted'
         /\ MatchingPhases(ThoughtOf(request'.input)) = {}
         /\ Len(thoughtHistory') = Len(thoughtHistory) + 1)
        => /\ "closeBrowser" \in Range(calls')
           /\ SelectSeq(calls', IsPhaseMethod) = <<>>
           /\ debugContext'.issues = debugContext.issues
           /\ inserted' = inserted
           /\ ~response'.isError => (page' = "null" /\ browser' = "null")
           /\ response'.isError
                => calls'[Len(calls')] \in {"page.close", "browser.close"}
     /\ (FinishSubmitted' /\ MatchingPhases(ThoughtOf(request'.input)) # {})
        => "closeBrowser" \notin Range(calls')]_vars

\* a finish step has closed a page and a browser that were open
C13_OpenSessionTornDown ==
  /\ FinishSubmitted
  /\ ~response.isError
  /\ calls = <<"closeBrowser", "page.close", "browser.close">>
  /\ page = "null"
  /\ browser = "null"
  /\ debugContext.rewriteRules # <<>>

\* a step with "finish" and "port" in its text has run phase 5 on an open page
C13_FinishWithPhaseKeyword ==
  /\ FinishSubmitted
  /\ ~response.isError
  /\ PhaseCalls = <<"step5_AnalyzeRedirects">>
  /\ page # "null"

\* the last submission is a step that passed validation with a trigger
\* keyword of phase 1 ("start", "initialize") in its text
StartSubmitted ==
  /\ request.op = "submit"
  /\ PassesValidation(request.input)
  /\ 1 \in MatchingPhases(ThoughtOf(request.input))

FailedAfterValidation ==
  /\ request.op = "submit"
  /\ PassesValidation(request.input)
  /\ response.isError

\* the step names a branch: branchFromThought and branchId are truthy
NamesBranch(input) == Truthy(input.branchFromThought) /\ Truthy(input.branchId)

\* seq begins with the entries of old
Extends(seq, old) ==
  Len(seq) >= Len(old) /\ SubSeq(seq, 1, Len(old)) = old

\* C15: a step that passes validation and is answered with isError = true
\* undoes nothing: the ledger and every branch keep their entries, a target
\* that was set stays, a target discovered from the step's token stays set,
\* and every other field of the Diagnostic Context and the rule log are as
\* they were; and when the exception has left the dispatched operation
\* (initBrowser on a start step, closeBrowser on a finish step) the step is
\* the last entry of the ledger and, when it names a branch, of that branch.
\* (An exception thrown before line 863 leaves the step out of the ledger:
\* that case is C1's.)
C15_ErrorRollsNothingBack ==
  [][FailedAfterValidation' =>
       /\ Extends(thoughtHistory', thoughtHistory)
       /\ \A k \in DOMAIN branches :
            k \in DOMAIN branches' /\ Extends(branches'[k], branches[k])
       /\ debugContext'.deviceUrl =
            IF debugContext.deviceUrl # "" THEN debugContext.deviceUrl
            ELSE UrlMatchOf(ThoughtOf(request'.input))
       /\ debugContext' =
            [debugContext EXCEPT
               !.deviceUrl = debugContext'.deviceUrl,
               !.deviceIP = debugContext'.deviceIP,
               !.deviceHostname = debugContext'.deviceHostname]
       /\ inserted' = inserted
       /\ calls' # <<>> =>
            /\ calls'[Len(calls')] \in
                 {"chromium.launch", "browser.newContext", "context.newPage",
                  "page.close", "browser.close"}
            /\ Len(thoughtHistory') = Len(thoughtHistory) + 1
            /\ LastThought(thoughtHistory').thought = ThoughtOf(request'.input)
            /\ NamesBranch(request'.input) =>
                 /\ PropertyKey(request'.input.branchId) \in DOMAIN branches'
                 /\ LastThought(branches'[PropertyKey(request'.input.branchId)])
                      = LastThought(thoughtHistory')]_vars

\* a start step that names a branch and the first target of the session has
\* met a browser that does not launch, in a session with issues
C15_LaunchFailedOnBranchStep ==
  /\ FailedAfterValidation
  /\ NamesBranch(request.input)
  /\ calls[Len(calls)] = "chromium.launch"
  /\ debugContext.deviceUrl = UrlMatchOf(ThoughtOf(request.input))
  /\ \A i \in 1..(Len(thoughtHistory) - 1) :
       UrlMatchOf(thoughtHistory[i].thought) = ""
  /\ debugContext.issues # <<>>
  /\ Len(branches["b1"]) = 1

\* the teardown has failed on a finish step
C15_TeardownFailed ==
  /\ FailedAfterValidation
  /\ FinishSubmitted
  /\ calls[Len(calls)] = "page.close"
  /\ page # "null"

\* the last submission is a step that passed validation and took the branch b
\* of the dispatch chain
Dispatched(b) ==
  /\ request.op = "submit"
  /\ PassesValidation(request.input)
  /\ BranchFor(ThoughtOf(request.input)) = b

\* the failure entries the catch clauses of the phases 2, 3, 4 and 7 push
FailureEntry(b, e) ==
  CASE b = "step2" -> "Page loading failed with error: " \o ErrorText(e.goto.error)
    [] b = "step3" -> "Resource analysis failed: " \o ErrorText(e.resourceAnalysis.error)
    [] b = "step4" -> "WebSocket analysis failed: " \o ErrorText(e.hasWebSocket.error)
    [] b = "step7" -> "Curl analysis failed: " \o ErrorText(e.fetch.error)

ManualFallback ==
  "RECOMMENDATION: Try accessing device directly via jbox browser for manual analysis"

\* C16: when the navigation of phase 2, the DOM evaluation of phase 3 or 4 or
\* the HEAD probe of phase 7 fails, the step is ledgered and answered with a
\* summary without isError, the issue log keeps its entries and gains the
\* failure entry of the phase, and no rule is pushed; phase 7 appends the
\* failure entry and the manual-fallback recommendation and nothing else;
\* phase 2 leaves pageLoadStatus not_loaded.
C16_PhaseFailureCaughtInPhase ==
  [][/\ (/\ Dispatched("step2")'
         /\ page # "null"
         /\ ParseURL(debugContext'.deviceUrl).ok
         /\ request'.env.goto.error # "")
        => /\ ~response'.isError
           /\ DOMAIN response'.body = SummaryKeys
           /\ Len(thoughtHistory') = Len(thoughtHistory) + 1
           /\ debugContext'.issues =
                Append(debugContext.issues, FailureEntry("step2", request'.env))
           /\ debugContext'.pageLoadStatus = "not_loaded"
           /\ response'.body.pageLoadStatus = "not_loaded"
           /\ inserted' = inserted
     /\ (/\ \/ (Dispatched("step3")' /\ request'.env.resourceAnalysis.error # "")
            \/ (Dispatched("step4")' /\ request'.env.hasWebSocket.error # "")
         /\ page # "null")
        => /\ ~response'.isError
           /\ DOMAIN response'.body = SummaryKeys
           /\ Len(thoughtHistory') = Len(thoughtHistory) + 1
           /\ debugContext'.issues =
                Append(debugContext.issues,
                       FailureEntry(BranchFor(ThoughtOf(request'.input)), request'.env))
           /\ inserted' = inserted
     /\ (/\ Dispatched("step7")'
         /\ ParseURL(debugContext'.deviceUrl).ok
         /\ request'.env.fetch.error # "")
        => /\ ~response'.isError
           /\ DOMAIN response'.body = SummaryKeys
           /\ Len(thoughtHistory') = Len(thoughtHistory) + 1
           /\ debugContext'.issues =
                debugContext.issues
                  \o <<FailureEntry("step7", request'.env), ManualFallback>>
           /\ debugContext'.curlResults = debugContext.curlResults
           /\ inserted' = inserted]_vars

\* the HEAD probe of a target has failed, and a later step has found its page
\* navigation failing
C16_LaterStepAfterProbeFailure ==
  /\ Dispatched("step2")
  /\ ~response.isError
  /\ Len(thoughtHistory) = 3
  /\ debugContext.issues =
       <<"Default rules enabled - baseline proxy configuration applied",
         FailureEntry("step7", EnvFail), ManualFallback,
         FailureEntry("step2", EnvFail)>>
  /\ debugContext.pageLoadStatus = "not_loaded"

\* the fields and the answer are those of r, the outcome of a call
OutcomeIs(r) ==
  /\ thoughtHistory = r.m.thoughtHistory
  /\ branches = r.m.branches
  /\ browser = r.m.browser
  /\ page = r.m.page
  /\ debugContext = r.m.debugContext
  /\ inserted = r.m.inserted
  /\ response = r.response

C17_ResumedAfterAnotherStep ==
  /\ request.op = "resume"
  /\ ~request.undisturbed
  /\ ~response.isError
  /\ Len(thoughtHistory) >= 2
  /\ thoughtHistory[Len(thoughtHistory)].thought # ThoughtOf(request.input)

\* the last submission is a step that passed validation with no trigger
\* keyword of a phase and no teardown keyword in its text
PlainSubmitted ==
  /\ request.op = "submit"
  /\ PassesValidation(request.input)
  /\ MatchingPhases(ThoughtOf(request.input)) = {}
  /\ ~FinishKeyword(ThoughtOf(request.input))

\* C18: a step that passes validation with no phase keyword and no
\* finish/complete keyword in its text enters no phase and calls no
\* collaborator; it is the new last entry of the ledger and the answer is a
\* summary with its numbers; the Diagnostic Context apart from the target
\* fields, the rule log, the browser and the page are as they were.
C18_PlainStepOnlyLedgered ==
  [][PlainSubmitted' =>
       /\ calls' = <<>>
       /\ Len(thoughtHistory') = Len(thoughtHistory) + 1
       /\ Extends(thoughtHistory', thoughtHistory)
       /\ LastThought(thoughtHistory').thought = ThoughtOf(request'.input)
       /\ ~response'.isError
       /\ response'.body.thoughtNumber = request'.input.thoughtNumber.v
       /\ debugContext' =
            [debugContext EXCEPT
               !.deviceUrl = debugContext'.deviceUrl,
               !.deviceIP = debugContext'.deviceIP,
               !.deviceHostname = debugContext'.deviceHostname]
       /\ inserted' = inserted
       /\ browser' = browser
       /\ page' = page]_vars

\* a step without keyword has been ledgered and answered on an open page, and
\* its URL token is the target
C18_PlainStepWithToken ==
  /\ PlainSubmitted
  /\ ~response.isError
  /\ calls = <<>>
  /\ page # "null"
  /\ debugContext.deviceUrl = "https://plc.local/ui"
  /\ LastThought(thoughtHistory).thought = "look at https://plc.local/ui"

\* list holds every entry of old at least as often as old does
Contains(list, old) ==
  \A x \in Range(old) : Occurrences(list, x) >= Occurrences(old, x)

\* reqs holds every observation of old at its place, with the properties it
\* had (a response adds its status to the entry)
KeepsRequests(reqs, old) ==
  /\ Len(reqs) >= Len(old)
  /\ \A i \in 1..Len(old) :
       /\ reqs[i].url = old[i].url
       /\ DOMAIN old[i] \subseteq DOMAIN reqs[i]

\* C19 as stated: no step and no page event takes an entry out of the issue
\* log, the Rule Catalog, the network and console observation lists, the
\* broken-image list, the broken-link list or the redirect list.
C19_NoListLosesAnEntry ==
  [][/\ Contains(debugContext'.issues, debugContext.issues)
     /\ Contains(debugContext'.rewriteRules, debugContext.rewriteRules)
     /\ KeepsRequests(debugContext'.networkRequests, debugContext.networkRequests)
     /\ Contains(debugContext'.consoleErrors, debugContext.consoleErrors)
     /\ Contains(debugContext'.brokenImages, debugContext.brokenImages)
     /\ Contains(debugContext'.brokenLinks, debugContext.brokenLinks)
     /\ Contains(debugContext'.redirects, debugContext.redirects)]_vars

\* C19: the issue log and the console observations only grow at the end, the
\* Rule Catalog keeps every rule, the network observations keep their place
\* and properties, and a teardown step leaves the whole context as it was;
\* the broken-image and broken-link lists are replaced, by a run of phase 3
\* whose DOM evaluation answers and by nothing else, with what that run has
\* found, and the redirect list, by a run of phase 5 and by nothing else, with
\* the redirects among the network observations.
C19_OnlySnapshotListsReplaced ==
  [][/\ Extends(debugContext'.issues, debugContext.issues)
     /\ Contains(debugContext'.rewriteRules, debugContext.rewriteRules)
     /\ Extends(inserted', inserted)
     /\ KeepsRequests(debugContext'.networkRequests, debugContext.networkRequests)
     /\ Extends(debugContext'.consoleErrors, debugContext.consoleErrors)
     /\ (\/ debugContext'.brokenImages # debugContext.brokenImages
         \/ debugContext'.brokenLinks # debugContext.brokenLinks)
        => (Dispatched("step3")' /\ page # "null")
     /\ (/\ Dispatched("step3")'
         /\ page # "null"
         /\ request'.env.resourceAnalysis.error = "")
        => /\ debugContext'.brokenLinks = request'.env.resourceAnalysis.deviceIPLinks
           /\ Range(debugContext'.brokenImages)
                \subseteq Range(request'.env.resourceAnalysis.brokenImages)
     /\ debugContext'.redirects # debugContext.redirects => Dispatched("step5")'
     /\ Dispatched("step5")'
        => debugContext'.redirects = SelectSeq(debugContext'.networkRequests, IsRedirect)
     /\ (Dispatched("close")' /\ request'.input.nextThoughtNeeded.v)
        => debugContext' = debugContext]_vars

\* a second run of phase 3 on a page that is bare by then has left the
\* broken-image and broken-link lists empty, with the issues and rules of
\* the first run in place
C19_ListsReplacedByEmpty ==
  /\ Dispatched("step3")
  /\ ~response.isError
  /\ Len(thoughtHistory) = 3
  /\ thoughtHistory[2].thought = ThoughtOf(request.input)
  /\ debugContext.brokenImages = <<>>
  /\ debugContext.brokenLinks = <<>>
  /\ Len(RulesOfPriority(debugContext.rewriteRules, 20)) = 1
  /\ Len(RulesOfPriority(debugContext.rewriteRules, 21)) = 1

\* the rules the last action has pushed
NewRules(before, after) == SubSeq(after, Len(before) + 1, Len(after))

\* the observation is a failed static file of the device
IsDeviceStaticError(req) ==
  IsNetworkError(req) /\ req.isDeviceIP /\ IsStaticPath(req.url)

\* the rule is that of the observation: a body find_replace rule of priority
\* 50 with the path of the resource in its pattern and the FQDN placeholder
\* in its replacement
IsStaticRuleFor(rule, req) ==
  /\ rule.type = "body"
  /\ rule.action = "find_replace"
  /\ rule.priority = 50
  /\ Includes(rule.pattern, ParseURL(req.url).pathname)
  /\ Includes(rule.replacement, "{{DEVICE_EXTERNAL_FQDN}}")

\* C20: a run of phase 6 pushes one rule of priority 50 for every network
\* observation with status >= 400, isDeviceIP and a static-path marker in
\* its URL, in the order of the observations, each a body find_replace rule
\* with the path of the resource in its pattern and {{DEVICE_EXTERNAL_FQDN}}
\* in its replacement, and no other rule of priority 50.
C20_OneStaticRulePerDeviceError ==
  [][Dispatched("step6")' =>
       /\ ~response'.isError
       /\ Len(RulesOfPriority(NewRules(inserted, inserted'), 50))
            = Len(SelectSeq(debugContext.networkRequests, IsDeviceStaticError))
       /\ \A i \in 1..Len(SelectSeq(debugContext.networkRequests, IsDeviceStaticError)) :
            IsStaticRuleFor(
              RulesOfPriority(NewRules(inserted, inserted'), 50)[i],
              SelectSeq(debugContext.networkRequests, IsDeviceStaticError)[i])]_vars

\* phase 6 has run on a 404 of /static/app.js of the device and has pushed
\* the rule for app.js
C20_RuleForAppJs ==
  /\ Dispatched("step6")
  /\ ~response.isError
  /\ \E i \in 1..Len(debugContext.networkRequests) :
       /\ debugContext.networkRequests[i].url = "http://192.168.1.100:8080/static/app.js"
       /\ IsDeviceStaticError(debugContext.networkRequests[i])
       /\ debugContext.networkRequests[i].status = 404
  /\ Len(RulesOfPriority(inserted, 50)) = 1
  /\ Includes(RulesOfPriority(inserted, 50)[1].pattern, "app.js")
  /\ RulesOfPriority(inserted, 50)[1].replacement = "{{DEVICE_EXTERNAL_FQDN}}/static/app.js"

\* phase 6 has run on a 404 of a static file of another host and has pushed
\* no rule of priority 50
C20_NoRuleForOtherHost ==
  /\ Dispatched("step6")
  /\ ~response.isError
  /\ \E i \in 1..Len(debugContext.networkRequests) :
       /\ debugContext.networkRequests[i].url = "http://cdn.example.com/static/lib.js"
       /\ IsNetworkError(debugContext.networkRequests[i])
       /\ ~debugContext.networkRequests[i].isDeviceIP
  /\ RulesOfPriority(inserted, 50) = <<>>

\* the issues the last action has pushed
NewIssues(before, after) == SubSeq(after, Len(before) + 1, Len(after))

BootstrapIssues ==
  <<"BOOTSTRAP.JS ISSUE: Bootstrap.js HTTPS protocol issue detected (Reference: DSD-3756)",
    "ROOT CAUSE: Device configured as HTTP but accessed via HTTPS through RA portal">>

BootstrapAdvisories ==
  <<"NOTE: If bootstrap.js file is updated, this rule may need adjustment",
    "ALTERNATIVE: If HTTPS is properly configured on device, onboard as HTTPS and remove this rule">>

IsBootstrapIssue(issue) == issue \in Range(BootstrapIssues)
IsBootstrapAdvisory(issue) == issue \in Range(BootstrapAdvisories)

\* C21: a run of phase 6 on console observations of which at least one is
\* flagged isBootstrapJS pushes one rule of priority 70, however many are
\* flagged: the body find_replace rule of pattern "https", replacement
\* "spdy" and path "bootstrap.js"; it pushes the two advisories (NOTE,
\* ALTERNATIVE) once each, behind the issue and its root cause; a run on
\* observations of which none is flagged pushes none of these.
C21_OneBootstrapRulePerRun ==
  [][Dispatched("step6")' =>
       IF SelectSeq(debugContext.consoleErrors, IsBootstrapError) # <<>>
       THEN /\ Len(RulesOfPriority(NewRules(inserted, inserted'), 70)) = 1
            /\ RulesOfPriority(NewRules(inserted, inserted'), 70)[1].type = "body"
            /\ RulesOfPriority(NewRules(inserted, inserted'), 70)[1].action = "find_replace"
            /\ RulesOfPriority(NewRules(inserted, inserted'), 70)[1].pattern = "https"
            /\ RulesOfPriority(NewRules(inserted, inserted'), 70)[1].replacement = "spdy"
            /\ RulesOfPriority(NewRules(inserted, inserted'), 70)[1].path = "bootstrap.js"
            /\ SelectSeq(NewIssues(debugContext.issues, debugContext'.issues),
                         IsBootstrapAdvisory) = BootstrapAdvisories
            /\ SelectSeq(NewIssues(debugContext.issues, debugContext'.issues),
                         IsBootstrapIssue) = BootstrapIssues
       ELSE /\ RulesOfPriority(NewRules(inserted, inserted'), 70) = <<>>
            /\ SelectSeq(NewIssues(debugContext.issues, debugContext'.issues),
                         IsBootstrapAdvisory) = <<>>
            /\ SelectSeq(NewIssues(debugContext.issues, debugContext'.issues),
                         IsBootstrapIssue) = <<>>]_vars

\* phase 6 has run on two console observations flagged isBootstrapJS and the
\* catalog holds one rule of priority 70
C21_TwoFlaggedOneRule ==
  /\ Dispatched("step6")
  /\ ~response.isError
  /\ Len(SelectSeq(debugContext.consoleErrors, IsBootstrapError)) = 2
  /\ Len(RulesOfPriority(debugContext.rewriteRules, 70)) = 1
  /\ Len(SelectSeq(debugContext.issues, IsBootstrapAdvisory)) = 2

\* the place of a trigger phrase in the tool description, 0 for other texts
TriggerOf(thought) ==
  IF \E i \in 1..8 : TriggerPhrases[i] = thought
  THEN CHOOSE i \in 1..8 : TriggerPhrases[i] = thought
  ELSE 0

\* C22: a step whose text is the i-th trigger phrase of the tool description
\* enters the phase analyzer i and no other, for i in 1..7, the first behind
\* the browser initialisation; a step whose text is "Generate final report"
\* enters no phase analyzer, and is answered with the report when it is the
\* last step.
C22_TriggerPhrasesDispatchAsDocumented ==
  (request.op = "submit" /\ PassesValidation(request.input)
     /\ TriggerOf(ThoughtOf(request.input)) > 0)
  => IF TriggerOf(ThoughtOf(request.input)) = 8
     THEN /\ PhaseCalls = <<>>
          /\ (request.input.nextThoughtNeeded.v = FALSE => HasReport)
     ELSE /\ PhaseCalls = <<PhaseMethods[TriggerOf(ThoughtOf(request.input))]>>
          /\ (TriggerOf(ThoughtOf(request.input)) = 1 => calls[1] = "initBrowser")

\* each of the first seven trigger phrases has entered its phase analyzer
C22_FirstSevenDispatchAsDocumented ==
  (request.op = "submit" /\ PassesValidation(request.input)
     /\ TriggerOf(ThoughtOf(request.input)) \in 1..7)
  => /\ PhaseCalls = <<PhaseMethods[TriggerOf(ThoughtOf(request.input))]>>
     /\ (TriggerOf(ThoughtOf(request.input)) = 1 => calls[1] = "initBrowser")

\* "Generate final report" has entered the redirect analyzer
C22_ReportPhraseRunsRedirects ==
  /\ request.op = "submit"
  /\ ThoughtOf(request.input) = "Generate final report"
  /\ PhaseCalls = <<"step5_AnalyzeRedirects">>

PageLoadStatuses == {"", "not_loaded", "partially_loaded", "fully_loaded"}

\* the verdict of phase 2 on the answers of page.goto and page.evaluate
Classified(goto, pageContent) ==
  IF goto.error # "" \/ ~goto.hasResponse \/ goto.status = 400 THEN "not_loaded"
  ELSE IF pageContent.error # "" THEN "not_loaded"
  ELSE IF ~pageContent.hasBody \/ pageContent.bodyLength < 100 THEN "not_loaded"
  ELSE IF pageContent.hasLoginForm THEN "fully_loaded"
  ELSE IF goto.status # 200 THEN "partially_loaded"
  ELSE "fully_loaded"

Priorities(rules) == [i \in 1..Len(rules) |-> rules[i].priority]

\* C23: a run of phase 2 on a page and a target sets pageLoadStatus by the
\* answers of the navigation and of the DOM probe: not_loaded when the
\* navigation or the probe fails, when there is no response (with the
\* critical issue), on status 400 (with two header rules, of priority 10
\* and 11), and when the body is absent or shorter than 100; fully_loaded
\* on a login form; partially_loaded without login form on a status other
\* than 200; fully_loaded otherwise. Only status 400 pushes rules.
\* pageLoadStatus is always unset or one of the three verdicts.
C23_PageLoadClassification ==
  [][/\ debugContext'.pageLoadStatus \in PageLoadStatuses
     /\ (Dispatched("step2")' /\ page # "null" /\ debugContext.deviceUrl # "")
        => /\ debugContext'.pageLoadStatus =
                Classified(request'.env.goto, request'.env.pageContent)
           /\ IF request'.env.goto.error = "" /\ request'.env.goto.hasResponse
                 /\ request'.env.goto.status = 400
              THEN /\ Priorities(NewRules(inserted, inserted')) = <<10, 11>>
                   /\ \A i \in 1..2 : NewRules(inserted, inserted')[i].type = "header"
              ELSE NewRules(inserted, inserted') = <<>>
           /\ (request'.env.goto.error = "" /\ ~request'.env.goto.hasResponse)
              => NewIssues(debugContext.issues, debugContext'.issues) =
                   <<"CRITICAL: Web page is not loaded at all - no response from device">>]_vars

\* phase 2 has found a page of 100 characters without login form behind a
\* status 500
C23_PartiallyLoaded ==
  /\ Dispatched("step2")
  /\ request.env.goto.status = 500
  /\ request.env.pageContent.bodyLength = 100
  /\ ~request.env.pageContent.hasLoginForm
  /\ debugContext.pageLoadStatus = "partially_loaded"

\* C24 as stated: a run of phase 7 pushes at most two rules, whatever the
\* HEAD response holds.
C24_AtMostTwoRulesPerRun ==
  [][Dispatched("step7")' => Len(NewRules(inserted, inserted')) <= 2]_vars

\* C24: a run of phase 7 pushes at most three rules, whatever the HEAD
\* response holds: at most one of priority 80 (Location), then at most one
\* of priority 81 (Server), then at most one of priority 82 (Set-Cookie),
\* and no other.
C24_AtMostThreeRulesPerRun ==
  [][Dispatched("step7")' =>
       /\ Len(NewRules(inserted, inserted')) <= 3
       /\ \A i \in 1..Len(NewRules(inserted, inserted')) :
            /\ NewRules(inserted, inserted')[i].priority \in {80, 81, 82}
            /\ \A j \in 1..(i - 1) :
                 NewRules(inserted, inserted')[j].priority
                   < NewRules(inserted, inserted')[i].priority]_vars

\* phase 7 has pushed three rules on a response with a Location on the
\* device, a Server naming a host check and a cookie that is a device URL
C24_ThreeRulesInOneRun ==
  /\ Dispatched("step7")
  /\ DOMAIN request.env.fetch.headers = {"location", "server", "set-cookie"}
  /\ Len(debugContext.rewriteRules) >= 3
  /\ Priorities(SubSeq(debugContext.rewriteRules,
                       Len(debugContext.rewriteRules) - 2,
                       Len(debugContext.rewriteRules))) = <<80, 81, 82>>

WebSocketPorts == <<"8080", "8081", "8443", "9001">>

\* C25: a run of phase 4 pushes no rule or four. On a navigated page whose
\* markup holds WebSocket, ws:// or wss:// it records the finding in
\* websocketIssues and pushes four body rules of priority 30, one per port
\* 8080, 8081, 8443, 9001 in this order, rewriting ws://<host>:<port>; on a
\* page whose markup holds none of them it pushes no rule and no issue;
\* without page it pushes no rule.
C25_NoRuleOrFourPerRun ==
  [][Dispatched("step4")' =>
       /\ Len(NewRules(inserted, inserted')) \in {0, 4}
       /\ (page = "navigated" /\ request'.env.hasWebSocket.error = ""
             /\ request'.env.hasWebSocket.value)
          => /\ Len(NewRules(inserted, inserted')) = 4
             /\ \A i \in 1..4 :
                  /\ NewRules(inserted, inserted')[i].type = "body"
                  /\ NewRules(inserted, inserted')[i].action = "find_replace"
                  /\ NewRules(inserted, inserted')[i].priority = 30
                  /\ NewRules(inserted, inserted')[i].pattern =
                       "ws://" \o debugContext.deviceHostname \o ":" \o WebSocketPorts[i]
             /\ debugContext'.websocketIssues =
                  Append(debugContext.websocketIssues, "WebSocket connections detected")
       /\ (page # "null" /\ request'.env.hasWebSocket.error = ""
             /\ ~request'.env.hasWebSocket.value)
          => /\ NewRules(inserted, inserted') = <<>>
             /\ debugContext'.websocketIssues = debugContext.websocketIssues
             /\ debugContext'.issues = debugContext.issues
       /\ page = "null" => NewRules(inserted, inserted') = <<>>]_vars

\* phase 4 has pushed the four rules on a navigated page with WebSocket markup
C25_FourRulesPushed ==
  /\ Dispatched("step4")
  /\ request.env.hasWebSocket.value
  /\ debugContext.websocketIssues = <<"WebSocket connections detected">>
  /\ Len(RulesOfPriority(debugContext.rewriteRules, 30)) = 4

\* a phase 2, 3 or 4 without page, or a phase 2 without target
MissingPrerequisite ==
  \/ (page = "null" /\ (Dispatched("step2")' \/ Dispatched("step3")' \/ Dispatched("step4")'))
  \/ (debugContext.deviceUrl = "" /\ Dispatched("step2")')

\* C28 as stated: a phase 2, 3 or 4 run without page, and a phase 2 run
\* without target, leaves every field of the context as it was and is
\* answered without error.
C28_MissingPrerequisiteChangesNothing ==
  [][MissingPrerequisite =>
       (debugContext' = debugContext /\ ~response'.isError)]_vars

\* C28: a phase 2 or 3 run without page, and a phase 2 run without target,
\* leaves every field of the context as it was; a phase 4 run without page
\* sets currentStep to its label and leaves every other field as it was;
\* all of them are answered without error.
C28_OnlyPhase4SetsStepLabel ==
  [][MissingPrerequisite =>
       /\ ~response'.isError
       /\ debugContext' =
            [debugContext EXCEPT !.currentStep =
               IF Dispatched("step4")' THEN "Analyze WebSocket Connections" ELSE @]]_vars

\* phase 4 has run after the teardown and has left its label
C28_Phase4LabelWithoutPage ==
  /\ Dispatched("step4")
  /\ page = "null"
  /\ Len(thoughtHistory) = 3
  /\ debugContext.currentStep = "Analyze WebSocket Connections"
  /\ debugContext.defaultRulesEnabled
  /\ debugContext.websocketIssues = <<>>

\* the hostnames of ClassifiedUrls the private-network pattern matches
PrivateHostnames == {"192.168.1.100", "10.0.0.5", "172.16.0.1", "127.0.0.1"}

Hostname(url) == ParseURL(url).hostname

\* C26 as stated: a URL targets the device iff its hostname is the target's
\* or matches the private-network pattern, a target being set or not.
C26_TargetsDeviceIffHostnameMatches ==
  request.op = "classify" =>
    (response.targetsDevice <=>
       /\ ParseURL(request.url).ok
       /\ \/ /\ ParseURL(debugContext.deviceUrl).ok
             /\ Hostname(request.url) = Hostname(debugContext.deviceUrl)
          \/ Hostname(request.url) \in PrivateHostnames)

\* C26: a URL targets the device iff a target is set and parses, the URL
\* parses, and its hostname is the target's or matches the private-network
\* pattern; without target, or with a target that does not parse, no URL
\* targets the device.
C26_TargetsDeviceOnlyWithTarget ==
  request.op = "classify" =>
    (response.targetsDevice <=>
       /\ ParseURL(debugContext.deviceUrl).ok
       /\ ParseURL(request.url).ok
       /\ \/ Hostname(request.url) = Hostname(debugContext.deviceUrl)
          \/ Hostname(request.url) \in PrivateHostnames)

\* a URL of a private network has been classified on a named target
C26_PrivateUrlOnNamedTarget ==
  /\ request.op = "classify"
  /\ debugContext.deviceUrl = "https://plc.local/ui"
  /\ request.url = "http://172.16.0.1/"
  /\ response.targetsDevice

\* C27: a response event sets the status on the observation of the request
\* it answers and leaves every other observation as it was, two requests to
\* one URL included.
C27_ResponseRecordedOnItsRequest ==
  [][request'.op = "response" =>
       /\ "status" \in DOMAIN debugContext'.networkRequests[request'.of]
       /\ debugContext'.networkRequests[request'.of].status = request'.status
       /\ \A j \in 1..Len(debugContext.networkRequests) :
            j # request'.of =>
              debugContext'.networkRequests[j] = debugContext.networkRequests[j]]_vars

\* the response of the second of two requests to one URL has been recorded
\* on the first, the second has no status
C27_RecordedOnTheFirstRequest ==
  /\ request.op = "response"
  /\ request.of = 2
  /\ debugContext.networkRequests[1].url = debugContext.networkRequests[2].url
  /\ "status" \in DOMAIN debugContext.networkRequests[1]
  /\ "status" \notin DOMAIN debugContext.networkRequests[2]

\* with requests to different URLs every response is recorded on its request
C27_DistinctUrlsRecordedOnTheirRequest ==
  [][(/\ request'.op = "response"
      /\ \A j \in 1..Len(debugContext.networkRequests) :
           j # request'.of =>
             debugContext.networkRequests[j].url # request'.url)
     => /\ "status" \in DOMAIN debugContext'.networkRequests[request'.of]
        /\ debugContext'.networkRequests[request'.of].status = request'.status
        /\ \A j \in 1..Len(debugContext.networkRequests) :
             j # request'.of =>
               debugContext'.networkRequests[j] = debugContext.networkRequests[j]]_vars

\* the ledgered step carries a branch marker: an origin and an identifier
HasBranchMarker(step) == Truthy(step.branchFromThought) /\ Truthy(step.branchId)

\* the identifiers the ledgered steps name
NamedBranches ==
  {PropertyKey(thoughtHistory[i].branchId) :
     i \in {j \in 1..Len(thoughtHistory) : HasBranchMarker(thoughtHistory[j])}}

\* the ledgered steps that name the branch, in ledger order
LedgerOfBranch(id) ==
  LET Names(step) == HasBranchMarker(step) /\ PropertyKey(step.branchId) = id
  IN SelectSeq(thoughtHistory, Names)

\* C29: the sequence of every branch is the subsequence of the main ledger
\* made of the steps that carry a marker naming the branch, in ledger order:
\* every ledgered step with a marker is in the sequence of its branch, and a
\* step without marker is in none.
C29_BranchesAreLedgerSubsequences ==
  /\ DOMAIN branches = NamedBranches
  /\ \A id \in DOMAIN branches : branches[id] = LedgerOfBranch(id)

\* the same for the branches not named like an inherited property
C29_OwnNamedBranchesAreLedgerSubsequences ==
  /\ DOMAIN branches = NamedBranches \ ObjectPrototypeKeys
  /\ \A id \in DOMAIN branches : branches[id] = LedgerOfBranch(id)

\* a step on the branch "constructor" is in the main ledger, in no branch,
\* and was answered with an error
C29_LedgeredOutsideItsBranch ==
  /\ request.op = "submit"
  /\ response.isError
  /\ "constructor" \in NamedBranches
  /\ "constructor" \notin DOMAIN branches

\* the awaited calls to the page inspector and to the header prober
IsAwaitedCollaborator(name) == name \in {"page.goto", "page.evaluate", "fetch"}

\* those the phase of the last submission has made, in order
AwaitedCalls == SelectSeq(calls, IsAwaitedCollaborator)

\* C30 as stated: one invocation of a phase analyzer awaits a collaborator
\* at most once.
C30_AtMostOneAwaitPerPhase ==
  (request.op = "submit" /\ PassesValidation(request.input))
  => Len(AwaitedCalls) <= 1

\* C30: one invocation of phase 3 or 4 awaits at most one DOM evaluation,
\* one of phase 7 one HEAD probe, one of phase 1, 5 or 6 nothing; one
\* invocation of phase 2 awaits the navigation and then, when it has
\* answered with a status other than 400, the DOM evaluation: up to two.
C30_AwaitsPerPhase ==
  (request.op = "submit" /\ PassesValidation(request.input))
  => CASE Dispatched("step2") ->
            AwaitedCalls \in {<<>>, <<"page.goto">>, <<"page.goto", "page.evaluate">>}
       [] Dispatched("step3") \/ Dispatched("step4") ->
            AwaitedCalls \in {<<>>, <<"page.evaluate">>}
       [] Dispatched("step7") -> AwaitedCalls \in {<<>>, <<"fetch">>}
       [] OTHER -> AwaitedCalls = <<>>

\* phase 2 has awaited the navigation and the DOM evaluation
C30_Phase2AwaitedTwice ==
  /\ Dispatched("step2")
  /\ ~response.isError
  /\ PhaseCalls = <<"step2_AnalyzePageLoading">>
  /\ AwaitedCalls = <<"page.goto", "page.evaluate">>

\* the entries of the sequence behind its first n
From(seq, n) == SubSeq(seq, n + 1, Len(seq))

\* a phase 2..7 runs on the step the last submission ran it on, with the same
\* answers of the collaborators and no observation in between
PhaseRunsAgain ==
  /\ request.op = "submit"
  /\ request'.op = "submit"
  /\ request'.input = request.input
  /\ request'.env = request.env
  /\ \E b \in {"step2", "step3", "step4", "step5", "step6", "step7"} : Dispatched(b)

\* C31: a phase 2..7 run again on the same observations pushes the issues
\* and the rules the run before has pushed once more, in the same order,
\* and the catalog grows by every one of these rules, none being left out
\* as a duplicate.
C31_RerunPushesTheSameAgain ==
  [][PhaseRunsAgain =>
       /\ NewIssues(debugContext.issues, debugContext'.issues)
            = From(debugContext.issues, request.before.issues)
       /\ NewRules(inserted, inserted') = From(inserted, request.before.rules)
       /\ Len(debugContext'.rewriteRules)
            = Len(debugContext.rewriteRules) + Len(From(inserted, request.before.rules))]_vars

\* phase 5 has run twice on one redirect and the catalog holds its rule twice
C31_RedirectRuleTwice ==
  /\ Dispatched("step5")
  /\ Len(debugContext.networkRequests) = 1
  /\ Len(RulesOfPriority(debugContext.rewriteRules, 40)) = 2
  /\ RulesOfPriority(debugContext.rewriteRules, 40)[1]
       = RulesOfPriority(debugContext.rewriteRules, 40)[2]

\* the last action was a step that is answered with the report
ReportingStep ==
  /\ request.op = "submit"
  /\ PassesValidation(request.input)
  /\ request.input.nextThoughtNeeded.v = FALSE

\* C32: no step and no page event removes or alters an issue or a rule: the
\* issue log before is a prefix of the issue log after, the catalog after
\* holds every rule of the catalog before and is no shorter, and every
\* action but a step with nextThoughtNeeded = false leaves the rules of the
\* catalog where they were and appends behind them.
C32_IssuesAndRulesOnlyGrow ==
  [][/\ Extends(debugContext'.issues, debugContext.issues)
     /\ Len(debugContext'.rewriteRules) >= Len(debugContext.rewriteRules)
     /\ Contains(debugContext'.rewriteRules, debugContext.rewriteRules)
     /\ ~ReportingStep' =>
          Extends(debugContext'.rewriteRules, debugContext.rewriteRules)]_vars

\* a step with nextThoughtNeeded = true has appended the four WebSocket rules
\* behind the baseline rules
C32_RulesAppendedBehind ==
  /\ Dispatched("step4")
  /\ request.input.nextThoughtNeeded.v
  /\ Priorities(debugContext.rewriteRules) = <<1, 2, 3, 4, 30, 30, 30, 30>>
  /\ Len(debugContext.issues) >= 3

\* C33: every step of the ledger has a non-empty text, a step number of at
\* least 1 and an estimate of the total of at least 1; a step that has not
\* is rejected by the validation.
C33_LedgeredStepsWithinSchema ==
  \A i \in 1..Len(thoughtHistory) :
    /\ thoughtHistory[i].thought # ""
    /\ thoughtHistory[i].thoughtNumber >= 1
    /\ thoughtHistory[i].totalThoughts >= 1

\* what the validation does enforce: the text is not empty, the step number
\* and the estimate are not 0
C33_LedgeredStepsNonZero ==
  \A i \in 1..Len(thoughtHistory) :
    /\ thoughtHistory[i].thought # ""
    /\ thoughtHistory[i].thoughtNumber # 0
    /\ thoughtHistory[i].totalThoughts # 0

\* a step numbered -1 of -1 has been ledgered and answered without error
C33_NegativeStepLedgered ==
  /\ request.op = "submit"
  /\ ~response.isError
  /\ Len(thoughtHistory) = 1
  /\ thoughtHistory[1].thoughtNumber = -1
  /\ thoughtHistory[1].totalThoughts = -1

\* the rules of the catalog whose priority is one of the baseline's
BaselineRules ==
  LET IsBaseline(r) == r.priority \in 1..4
  IN SelectSeq(debugContext.rewriteRules, IsBaseline)

\* C34: the catalog holds four rules of priority 1..4 when the defaults are
\* enabled and none when they are not, it never holds more than one rule of
\* type "default", and while a page session is live the defaults are
\* enabled and the four rules are in the catalog.
C34_BaselineRulesIffEnabled ==
  /\ Len(BaselineRules) = (IF debugContext.defaultRulesEnabled THEN 4 ELSE 0)
  /\ Len(RulesOfType(debugContext.rewriteRules, "default")) <= 1
  /\ page # "null"
       => /\ debugContext.defaultRulesEnabled
          /\ {BaselineRules[i].priority : i \in 1..Len(BaselineRules)} = 1..4

\* a page session is live, phases have pushed rules behind the four baseline
\* rules, and a second start step has pushed none
C34_LivePageAfterSecondStart ==
  /\ Dispatched("step1")
  /\ Len(thoughtHistory) = 3
  /\ page = "navigated"
  /\ Len(BaselineRules) = 4
  /\ Len(debugContext.rewriteRules) > 4

\* C35: deviceUrl is set exactly when deviceHostname and deviceIP are, and
\* both are then the hostname of deviceUrl, whatever token the target was
\* discovered from.
C35_TargetSetAtomically ==
  /\ debugContext.deviceUrl # ""
       <=> (debugContext.deviceHostname # "" /\ debugContext.deviceIP # "")
  /\ debugContext.deviceUrl # ""
       => /\ ParseURL(debugContext.deviceUrl).ok
          /\ debugContext.deviceHostname = Hostname(debugContext.deviceUrl)
          /\ debugContext.deviceIP = Hostname(debugContext.deviceUrl)

\* the same for a target that parses; a target that does not parse has
\* neither hostname nor address
C35_ParsedTargetSetAtomically ==
  /\ (debugContext.deviceHostname # "" \/ debugContext.deviceIP # "")
       => (debugContext.deviceUrl # "" /\ ParseURL(debugContext.deviceUrl).ok)
  /\ (debugContext.deviceUrl # "" /\ ParseURL(debugContext.deviceUrl).ok)
       => /\ debugContext.deviceHostname = Hostname(debugContext.deviceUrl)
          /\ debugContext.deviceIP = Hostname(debugContext.deviceUrl)
  /\ (debugContext.deviceUrl # "" /\ ~ParseURL(debugContext.deviceUrl).ok)
       => (debugContext.deviceHostname = "" /\ debugContext.deviceIP = "")

\* the target is a token that does not parse, and a later step that names a
\* URL that parses has been accepted without setting hostname or address
C35_TargetWithoutHostname ==
  /\ request.op = "submit"
  /\ ~response.isError
  /\ UrlMatchOf(ThoughtOf(request.input)) = "https://plc.local/ui"
  /\ debugContext.deviceUrl = "http://192.168.1.100:8080."
  /\ debugContext.deviceHostname = ""
  /\ debugContext.deviceIP = ""

\* the baseline rules and the issue of phase 1 are in the context once
PushedOnce ==
  /\ Len(inserted) = 4
  /\ Priorities(inserted) = <<1, 2, 3, 4>>
  /\ debugContext.rewriteRules = inserted
  /\ Occurrences(debugContext.issues,
                 "Default rules enabled - baseline proxy configuration applied") = 1

\* C36: with start steps in flight at once and interleaved at their awaits,
\* the four baseline rules and the issue of phase 1 are appended exactly
\* once: not at all before a call has run phase 1, once from then on.
C36_BaselinePushedOnceWhenInterleaved ==
  IF debugContext.defaultRulesEnabled THEN PushedOnce
  ELSE /\ inserted = <<>>
       /\ debugContext.rewriteRules = <<>>
       /\ debugContext.issues = <<>>
       /\ \A i \in 1..Len(suspended) : suspended[i].at # "step1"

\* two start steps began before the browser was launched, both have gone
\* through initBrowser and run phase 1, neither has answered
C36_BothRanPhase1InFlight ==
  /\ Len(suspended) = 2
  /\ \A i \in 1..2 : /\ suspended[i].at = "step1"
                     /\ suspended[i].m0.browser = "null"
                     /\ ~suspended[i].m0.debugContext.defaultRulesEnabled
  /\ PushedOnce

\* the calls in flight that wait at the await at
WaitingAt(at) == {i \in 1..Len(suspended) : suspended[i].at = at}

\* C37: with start steps in flight at once and interleaved at the awaits of
\* initBrowser, at most one browser is launched and at most one page is
\* created: no launch is under way beside another or beside a browser, and a
\* browser or a page is assigned only where the session has none, so that
\* none is left without reference.
C37_OneBrowserOnePageWhenInterleaved ==
  /\ Cardinality(WaitingAt("launch")) <= (IF browser = "null" THEN 1 ELSE 0)
  /\ Cardinality(WaitingAt("newContext") \cup WaitingAt("newPage"))
       <= (IF page = "null" THEN 1 ELSE 0)
  /\ (request.op = "launch" /\ request.env.launch = "") => request.over = "null"
  /\ (request.op = "newPage" /\ request.env.newPage = "") => request.over = "null"

\* two start steps began on a session without browser; the launch of the
\* second has settled on a session that referred to the browser of the first
C37_LaunchedBrowserOverwritten ==
  /\ request.op = "launch"
  /\ request.env.launch = ""
  /\ request.over = "open"
  /\ browser = "open"
  /\ Len(thoughtHistory) = 2

\* the page of a second start step has been assigned over the page of the
\* first, whose handlers stay registered
C37_CreatedPageOverwritten ==
  /\ request.op = "newPage"
  /\ request.env.newPage = ""
  /\ request.over = "blank"
  /\ page = "blank"

\* C38: network observations exist only once a target is set, and the
\* isDeviceIP flag of every stored observation is the classification of its
\* URL against the target the session has now.
C38_ObservationsClassifiedByTarget ==
  /\ debugContext.networkRequests # <<>> => debugContext.deviceUrl # ""
  /\ \A i \in 1..Len(debugContext.networkRequests) :
       debugContext.networkRequests[i].isDeviceIP
         = isDeviceIPOrHostname(This, debugContext.networkRequests[i].url)

\* the page has requested the device and a host that is neither the device
\* nor private, and a step that names that host has been accepted after it
C38_SecondUrlAfterObservations ==
  /\ request.op = "submit"
  /\ ~response.isError
  /\ UrlMatchOf(ThoughtOf(request.input)) = "https://plc.local/ui"
  /\ debugContext.deviceUrl = "http://192.168.1.100:8080"
  /\ Len(debugContext.networkRequests) = 2
  /\ debugContext.networkRequests[1].url = "https://plc.local/ui"
  /\ ~debugContext.networkRequests[1].isDeviceIP
  /\ debugContext.networkRequests[2].url = "http://10.0.0.5/"
  /\ debugContext.networkRequests[2].isDeviceIP

\* the step has ended a browser or a page the session had
Released ==
  \/ browser # "null" /\ browser' = "null"
  \/ page # "null" /\ page' = "null"

\* C39: a terminal step that does not reach the finish/complete branch
\* leaves the browser and the page of the session live; a browser or a page
\* is released only by a step that reaches that branch.
C39_TeardownOnlyOnFinishBranch ==
  [][/\ (ReportingStep' /\ ~Dispatched("close")') => ~Released
     /\ Released => Dispatched("close")']_vars

\* a terminal step without keyword has been answered with the full report
\* and the session still has its browser and its navigated page
C39_TerminalStepSessionLive ==
  /\ ReportingStep
  /\ HasReport
  /\ ThoughtOf(request.input) = "think"
  /\ browser = "open"
  /\ page = "navigated"

\* C40: with the steps serialized, a session that has a page has a browser,
\* also after a launch, a page creation or a close that failed.
C40_LivePageHasLiveBrowser == page # "null" => browser # "null"

\* the close of the page has failed on a finish step: the session keeps its
\* page, and its browser with it
C40_PageKeptAfterFailedClose ==
  /\ Dispatched("close")
  /\ response.isError
  /\ response.body.error = EnvFail.pageClose
  /\ page # "null"
  /\ browser # "null"

\* the page has been closed and the close of the browser has failed: the
\* session has a browser and no page
C40_BrowserKeptWithoutPage ==
  /\ Dispatched("close")
  /\ response.isError
  /\ response.body.error = EnvFail.browserClose
  /\ calls = <<"closeBrowser", "page.close", "browser.close">>
  /\ page = "null"
  /\ browser # "null"

\* the page creation has failed after the launch: the session has a browser
\* and no page
C40_BrowserLaunchedWithoutPage ==
  /\ Dispatched("step1")
  /\ response.isError
  /\ response.body.error = EnvFail.newPage
  /\ page = "null"
  /\ browser # "null"

====
